---- MODULE Spec2Model ----
(***************************************************************************)
(* A model of the shadcn registry manager (MCP server):                    *)
(*   - the rate limiter of the tool boundary        (shadcn/src/index.ts)  *)
(*   - the registry dependency resolver             (registry/api.ts)      *)
(*   - the project mutation pipeline                (utils/add-components) *)
(*   - the workspace path guard                     (utils/security.ts)    *)
(* Each subsystem has its own variables, actions and specification; the    *)
(* variables of the other subsystems stay at their idle value.             *)
(***************************************************************************)
EXTENDS Integers, Sequences, FiniteSets, TLC

VARIABLES
    \* ---- rate limiter (index.ts, closure of main) ----
    activeOperations,   \* let activeOperations = 0
    inFlight,           \* tool -> number of invocations whose handler is awaited
    rejected,           \* tool -> number of invocations answered "Too many concurrent operations"
    completed,          \* tool -> number of invocations whose handler has settled
    \* ---- dependency resolver (registry/api.ts) ----
    rPc,                \* position of registryResolveItemsTree
    names,              \* the requested references
    baseColor,          \* config.tailwind.baseColor as read: "set", "unset" ("unread" before)
    world,              \* reference -> the document the catalog serves for it
    payload,            \* const payload: RegistryItem[]
    allDependencies,    \* const allDependencies: string[]
    direct,             \* [...localFiles, ...urls] still to fetch
    stack,              \* frames of resolveDependenciesRecursively
    visited,            \* the visited set shared by the nested calls
    allRegistryNames,   \* [...registryNames, ...dependencyRegistryNames]
    uniqueRegistryNames, \* Array.from(new Set(allRegistryNames)), "index" first
    registryItems,      \* let registryDependencies: string[] of resolveRegistryItems
    pending,            \* names resolveRegistryItems has still to resolve
    beforeSort,         \* payload as it was when payload.sort was called
    rResult,            \* what registryResolveItemsTree gave its caller
    \* ---- project mutation pipeline (utils/add-components.ts) ----
    aPc,                \* position of addComponents / addProjectComponents
    aStep,              \* index in Steps of the updater being called or awaited
    calls,              \* number of addComponents invocations started
    options,            \* the options of the invocation (options.overwrite)
    tree,               \* what registryResolveItemsTree resolves the request to
    disk,               \* project path -> "absent", "old" (the user's) or "new" (the registry's)
    manifest,           \* TRUE once the package manager has installed the dependencies
    started,            \* updaters called by this invocation
    finished,           \* updaters whose promise has resolved
    returned,           \* updater -> the value its promise resolved to
    filesModified,      \* const filesModified: string[]
    diskAtWrite,        \* disk as updateFiles found it
    results,            \* what each invocation gave its caller
    \* ---- workspace path guard (utils/security.ts) ----
    pPc,                \* "idle" or "done"
    inputPath,          \* the caller-supplied path or working directory
    pResult,            \* the function applied and what it returned or threw
    \* ---- tool boundary (index.ts, mcp/handlers, mcp/lib) ----
    proc,               \* the server process: "starting", "ready" or "exited"
    exitCause,          \* the process.exit call site that ended the process
    served,             \* number of invocations handled
    request,            \* the last invocation and the environment it ran in
    response,           \* how its handler ended: "ok", "isError" or "threw"
    effects,            \* what the handler did, in program order
    projectDir,         \* the project directory
    projectDirBefore,   \* the project directory when the last invocation began
    workdir,            \* the cwd the last invocation handed to runInit / addComponents
    \* ---- catalog client (registry/api.ts, utils/registry-security.ts) ----
    registryCache,      \* const registryCache = new Map<string, Promise<any>>()
    fetches,            \* number of fetchRegistry calls made
    fetchCall,          \* the last call: its path, its promise, the requests it sent
    \* ---- tree merge (registry/api.ts, registryResolveItemsTree) ----
    mPayload,           \* item.tailwind ?? {} of the items of the sorted payload
    tailwind,           \* let tailwind = {} during and after the forEach
    \* ---- workspace variant of addComponents (utils/add-components.ts) ----
    wsPc,               \* "loop" inside for (const component of payload), then "done"
    wsPayload,          \* const payload = z.array(registryItemSchema).parse(result)
    wsComponent,        \* position of the loop in payload
    wsStep,             \* the numbered step the loop body is about to run (1..5)
    wsLog,              \* the updates made so far: component, step, target root
    \* ---- concurrent callers of fetchRegistry (registry/api.ts) ----
    promises,           \* every fetchPromise created so far, in order of creation
    awaiting,           \* the callers: the promise each was handed, what it received
    clears              \* number of clearRegistryCache() calls so far

rateVars == <<activeOperations, inFlight, rejected, completed>>

resVars == <<rPc, names, baseColor, world, payload, allDependencies, direct,
             stack, visited, allRegistryNames, uniqueRegistryNames,
             registryItems, pending, beforeSort, rResult>>

addVars == <<aPc, aStep, calls, options, tree, disk, manifest, started,
             finished, returned, filesModified, diskAtWrite, results>>

pathVars == <<pPc, inputPath, pResult>>

toolVars == <<proc, exitCause, served, request, response, effects,
              projectDir, projectDirBefore, workdir>>

netVars == <<registryCache, fetches, fetchCall>>

mergeVars == <<mPayload, tailwind>>

wsVars == <<wsPc, wsPayload, wsComponent, wsStep, wsLog>>

flightVars == <<promises, awaiting, clears>>

moreVars == <<wsVars, flightVars>>

laterVars == <<toolVars, netVars, mergeVars, moreVars>>

baseVars == <<rateVars, resVars, addVars, pathVars, moreVars>>

vars == <<rateVars, resVars, addVars, pathVars, laterVars>>

(***************************************************************************)
(* Rate limiter                                                            *)
(***************************************************************************)

\* const MAX_CONCURRENT_OPERATIONS = 5
MAX_CONCURRENT_OPERATIONS == 5

\* Total number of tool invocations one run of the model receives.
MaxRequests == 7

\* The tools registered in main(); the two below are wrapped in withRateLimit.
Tools == {"execute_init", "execute_add", "add_item"}

RateLimitedTools == {"execute_init", "execute_add"}

\* The handler outcomes: the wrapped fn resolves or throws.
Outcomes == {"resolved", "threw"}

Sum3(f) == f["execute_init"] + f["execute_add"] + f["add_item"]

Arrived(t) == inFlight[t] + rejected[t] + completed[t]

TotalArrived == Sum3(inFlight) + Sum3(rejected) + Sum3(completed)

\* Admitted and not yet completed invocations of the rate-limited tools.
LimitedInFlight == inFlight["execute_init"] + inFlight["execute_add"]

\* The guard with the comparison off by one (> instead of >=).
AdmitsUpToCeiling(active) == active <= MAX_CONCURRENT_OPERATIONS

\* if (activeOperations >= MAX_CONCURRENT_OPERATIONS) throw ...
Admits(active) == ~(active >= MAX_CONCURRENT_OPERATIONS)

RateInit ==
    /\ activeOperations = 0
    /\ inFlight = [t \in Tools |-> 0]
    /\ rejected = [t \in Tools |-> 0]
    /\ completed = [t \in Tools |-> 0]

\* A call of a wrapped tool with the ceiling reached: the wrapper throws
\* before touching the counter and before calling fn.
RateLimitReject(t) ==
    /\ t \in RateLimitedTools
    /\ TotalArrived < MaxRequests
    /\ ~Admits(activeOperations)
    /\ rejected' = [rejected EXCEPT ![t] = @ + 1]
    /\ UNCHANGED <<activeOperations, inFlight, completed>>
    /\ UNCHANGED <<resVars, addVars, pathVars, laterVars>>

\* A call of a wrapped tool below the ceiling: activeOperations++ and fn is
\* called; the wrapper suspends at "await fn(...args)".
RateLimitAdmit(t) ==
    /\ t \in RateLimitedTools
    /\ TotalArrived < MaxRequests
    /\ Admits(activeOperations)
    /\ activeOperations' = activeOperations + 1
    /\ inFlight' = [inFlight EXCEPT ![t] = @ + 1]
    /\ UNCHANGED <<rejected, completed>>
    /\ UNCHANGED <<resVars, addVars, pathVars, laterVars>>

\* The wrapper with the finally block left out: the counter is never given back.
RateLimitSettleNoRelease(t, outcome) ==
    /\ t \in RateLimitedTools
    /\ outcome \in Outcomes
    /\ inFlight[t] > 0
    /\ inFlight' = [inFlight EXCEPT ![t] = @ - 1]
    /\ completed' = [completed EXCEPT ![t] = @ + 1]
    /\ UNCHANGED <<activeOperations, rejected>>
    /\ UNCHANGED <<resVars, addVars, pathVars, laterVars>>

\* fn settles (resolves or throws); the finally block runs activeOperations--.
RateLimitSettle(t, outcome) ==
    /\ t \in RateLimitedTools
    /\ outcome \in Outcomes
    /\ inFlight[t] > 0
    /\ activeOperations' = activeOperations - 1
    /\ inFlight' = [inFlight EXCEPT ![t] = @ - 1]
    /\ completed' = [completed EXCEPT ![t] = @ + 1]
    /\ UNCHANGED rejected
    /\ UNCHANGED <<resVars, addVars, pathVars, laterVars>>

\* A tool registered without the wrapper (add_item): the handler is called
\* directly, the counter is neither read nor written.
UnlimitedStart(t) ==
    /\ t \in Tools \ RateLimitedTools
    /\ TotalArrived < MaxRequests
    /\ inFlight' = [inFlight EXCEPT ![t] = @ + 1]
    /\ UNCHANGED <<activeOperations, rejected, completed>>
    /\ UNCHANGED <<resVars, addVars, pathVars, laterVars>>

UnlimitedSettle(t, outcome) ==
    /\ t \in Tools \ RateLimitedTools
    /\ outcome \in Outcomes
    /\ inFlight[t] > 0
    /\ inFlight' = [inFlight EXCEPT ![t] = @ - 1]
    /\ completed' = [completed EXCEPT ![t] = @ + 1]
    /\ UNCHANGED <<activeOperations, rejected>>
    /\ UNCHANGED <<resVars, addVars, pathVars, laterVars>>

RateNext ==
    \/ \E t \in Tools : RateLimitReject(t)
    \/ \E t \in Tools : RateLimitAdmit(t)
    \/ \E t \in Tools, o \in Outcomes : RateLimitSettle(t, o)
    \/ \E t \in Tools : UnlimitedStart(t)
    \/ \E t \in Tools, o \in Outcomes : UnlimitedSettle(t, o)

(***************************************************************************)
(* Dependency resolver: the catalog and the item order                     *)
(***************************************************************************)

\* The references of the model: a URL, a local file and two catalog names,
\* one of them the sentinel "index".
UrlRefs == {"https://r/u1"}

FileRefs == {"f1.json"}

NameRefs == {"index", "button"}

Refs == UrlRefs \cup FileRefs \cup NameRefs

\* export function isUrl(path): new URL(path) parses
isUrl(ref) == ref \in UrlRefs

\* function isLocalFile(str): str.endsWith('.json') && !isUrl(str)
isLocalFile(ref) == ref \in FileRefs

ItemTypes == {"registry:theme", "registry:ui", "registry:style", "registry:block"}

\* The type each document of the model's catalog declares.
TypeOf(ref) ==
    CASE ref = "https://r/u1" -> "registry:block"
      [] ref = "f1.json" -> "registry:theme"
      [] ref = "index" -> "registry:style"
      [] OTHER -> "registry:ui"

\* The comparator looking at its second argument instead of its first.
CompareSecond(a, b) == IF b.type = "registry:theme" THEN -1 ELSE 1

\* The comparator of payload.sort: -1 when a is a theme, 1 otherwise; b is
\* never read.
Compare(a, b) == IF a.type = "registry:theme" THEN -1 ELSE 1

Reverse(s) == [i \in 1..Len(s) |-> s[Len(s) + 1 - i]]

\* Array.prototype.sort of the runtime the images are built on (node:20, V8's
\* TimSort); arrays shorter than 64 elements are one run extended by binary
\* insertion.  CountRun: the length of the run that starts the array; the run
\* is descending when the comparator orders the second element before the
\* first.
RECURSIVE RunEnd(_, _, _)
RunEnd(s, idx, descending) ==
    IF idx > Len(s) THEN Len(s)
    ELSE LET order == Compare(s[idx], s[idx - 1])
         IN  IF (descending /\ order >= 0) \/ (~descending /\ order < 0)
             THEN idx - 1
             ELSE RunEnd(s, idx + 1, descending)

CountAndMakeRun(s) ==
    IF Len(s) < 2 THEN [run |-> Len(s), arr |-> s]
    ELSE LET descending == Compare(s[2], s[1]) < 0
             run == RunEnd(s, 3, descending)
         IN  [run |-> run,
              arr |-> IF descending
                      THEN Reverse(SubSeq(s, 1, run)) \o SubSeq(s, run + 1, Len(s))
                      ELSE s]

\* The insertion point of pivot in the sorted prefix s[1..start-1] (0-based
\* left/right of the source become 1-based positions left+1 .. right).
RECURSIVE BinarySearch(_, _, _, _)
BinarySearch(s, pivot, left, right) ==
    IF left >= right THEN left
    ELSE LET mid == left + ((right - left) \div 2)
         IN  IF Compare(pivot, s[mid + 1]) < 0
             THEN BinarySearch(s, pivot, left, mid)
             ELSE BinarySearch(s, pivot, mid + 1, right)

RECURSIVE BinaryInsertionSort(_, _)
BinaryInsertionSort(s, start) ==
    IF start > Len(s) THEN s
    ELSE LET pivot == s[start]
             left == BinarySearch(s, pivot, 0, start - 1)
             moved == SubSeq(s, 1, left) \o <<pivot>>
                        \o SubSeq(s, left + 1, start - 1)
                        \o SubSeq(s, start + 1, Len(s))
         IN  BinaryInsertionSort(moved, start + 1)

\* payload.sort((a, b) => a.type === "registry:theme" ? -1 : 1)
SortPayload(s) ==
    LET r == CountAndMakeRun(s)
    IN  BinaryInsertionSort(r.arr, r.run + 1)

(***************************************************************************)
(* Dependency resolver: registryResolveItemsTree                           *)
(***************************************************************************)

\* Longest list of requested references.
MaxNames == 2

\* Size of the catalog's dependency graph: the registryDependencies entries
\* of all its documents together.
MaxEdges == 2

\* Deepest nesting of resolveDependenciesRecursively the model follows.
MaxDepth == 6

SeqsUpTo(S, n) == UNION {[1..k -> S] : k \in 0..n}

Requests == SeqsUpTo(Refs, MaxNames) \ {<<>>}

\* Longest item list given to the sort on its own.
MaxPayload == 5

SortItems ==
    {[name |-> n, type |-> t, fetched |-> TRUE] :
        n \in NameRefs, t \in {"registry:theme", "registry:ui"}}

SortInputs == SeqsUpTo(SortItems, MaxPayload)

Unknown == [outcome |-> "unknown", type |-> "none", deps |-> <<>>]

\* What a fetch of a reference can give: an error (network, status, size),
\* a document that is no registry item (catalog names only: for a URL or a
\* file getRegistryItem fails on it like on an error), or a registry item.
EdgesUsed ==
    LET RECURSIVE Count(_)
        Count(S) == IF S = {} THEN 0
                    ELSE LET r == CHOOSE x \in S : TRUE
                         IN  Len(world[r].deps) + Count(S \ {r})
    IN  Count(Refs)

Docs(ref) ==
    {[outcome |-> "fail", type |-> "none", deps |-> <<>>]}
    \cup (IF ref \in NameRefs
          THEN {[outcome |-> "badshape", type |-> "none", deps |-> <<>>]}
          ELSE {})
    \cup {[outcome |-> "ok", type |-> TypeOf(ref), deps |-> d] :
            d \in SeqsUpTo(Refs, MaxEdges - EdgesUsed)}

\* The catalog answers the same reference the same way during one pass
\* (registryCache keeps the promise of the first fetch).
Served(ref) == IF world[ref].outcome = "unknown" THEN Docs(ref) ELSE {world[ref]}

Item(ref, doc) == [name |-> ref, type |-> doc.type, fetched |-> TRUE]

\* { name, type: 'registry:component', files: [], dependencies: [], ... }
Placeholder(ref) == [name |-> ref, type |-> "registry:component", fetched |-> FALSE]

BaseColorName == "slate"

\* The item registryGetTheme builds from the base colour document.
ThemeItem == [name |-> BaseColorName, type |-> "registry:theme", fetched |-> TRUE]

Frame(deps, guarded) ==
    [deps |-> deps, i |-> 1, items |-> <<>>, names |-> <<>>, guarded |-> guarded]

\* Array.from(new Set(list)): first occurrences, in order.
RECURSIVE Dedupe(_)
Dedupe(list) ==
    IF list = <<>> THEN <<>>
    ELSE LET init == Dedupe(SubSeq(list, 1, Len(list) - 1))
             last == list[Len(list)]
         IN  IF \E i \in 1..Len(init) : init[i] = last THEN init
             ELSE Append(init, last)

Includes(list, x) == \E i \in 1..Len(list) : list[i] = x

MapSeq(list, Op(_)) == [i \in 1..Len(list) |-> Op(list[i])]

\* An exception leaves the nested calls up to the nearest call made inside
\* the try block of the registry-name branch; that call's caller goes on
\* with its next dependency.  <<>>: nothing caught it.
RECURSIVE Unwind(_)
Unwind(stk) ==
    IF stk = <<>> THEN <<>>
    ELSE IF stk[Len(stk)].guarded THEN SubSeq(stk, 1, Len(stk) - 1)
    ELSE Unwind(SubSeq(stk, 1, Len(stk) - 1))

\* The visited check left out.
NeverVisited(dep, seen) == FALSE

\* if (visited.has(dep)) continue
IsVisited(dep, seen) == dep \in seen

\* The dependency is not remembered.
VisitedForgets(seen, dep) == seen

\* visited.add(dep)
VisitedAdd(seen, dep) == seen \cup {dep}

ResolveIdle ==
    /\ rPc = "idle"
    /\ names = <<>>
    /\ baseColor = "unread"
    /\ world = [r \in Refs |-> Unknown]
    /\ payload = <<>>
    /\ allDependencies = <<>>
    /\ direct = <<>>
    /\ stack = <<>>
    /\ visited = {}
    /\ allRegistryNames = <<>>
    /\ uniqueRegistryNames = <<>>
    /\ registryItems = <<>>
    /\ pending = <<>>
    /\ beforeSort = <<>>
    /\ rResult = "none"

\* registryResolveItemsTree(names, config) is called.
ResolveInit ==
    /\ rPc = "start"
    /\ names \in Requests
    /\ baseColor = "unread"
    /\ world = [r \in Refs |-> Unknown]
    /\ payload = <<>>
    /\ allDependencies = <<>>
    /\ direct = <<>>
    /\ stack = <<>>
    /\ visited = {}
    /\ allRegistryNames = <<>>
    /\ uniqueRegistryNames = <<>>
    /\ registryItems = <<>>
    /\ pending = <<>>
    /\ beforeSort = <<>>
    /\ rResult = "none"

\* The catch block of registryResolveItemsTree: handleError(error) throws,
\* the "return null" after it is never reached.
Throws ==
    /\ rPc' = "done"
    /\ rResult' = "threw"
    /\ stack' = <<>>

\* Separate local files, URLs, and registry names.
ResolvePartition ==
    /\ rPc = "start"
    /\ direct' = SelectSeq(names, isLocalFile) \o SelectSeq(names, isUrl)
    /\ rPc' = "direct"
    /\ UNCHANGED <<names, baseColor, world, payload, allDependencies, stack,
                   visited, allRegistryNames, uniqueRegistryNames,
                   registryItems, pending, rResult, beforeSort>>
    /\ UNCHANGED <<rateVars, addVars, pathVars, laterVars>>

\* One turn of the loops over localFiles and urls: getRegistryItem(ref, "").
\* getRegistryItem ends in handleError on every failure, so it never returns
\* null and the placeholder branch is not taken.
DirectFetch ==
    /\ rPc = "direct"
    /\ direct # <<>>
    /\ LET ref == Head(direct)
       IN  \E doc \in Served(ref) :
            /\ world' = [world EXCEPT ![ref] = doc]
            /\ IF doc.outcome = "ok"
               THEN /\ payload' = Append(payload, Item(ref, doc))
                    /\ allDependencies' = allDependencies \o doc.deps
                    /\ direct' = Tail(direct)
                    /\ UNCHANGED <<rPc, rResult, stack>>
               ELSE /\ Throws
                    /\ UNCHANGED <<payload, allDependencies, direct>>
    /\ UNCHANGED <<names, baseColor, visited, allRegistryNames,
                   uniqueRegistryNames, registryItems, pending, beforeSort>>
    /\ UNCHANGED <<rateVars, addVars, pathVars, laterVars>>

\* resolveDependenciesRecursively(allDependencies, config) is called with a
\* new visited set.
DirectDone ==
    /\ rPc = "direct"
    /\ direct = <<>>
    /\ rPc' = "deps"
    /\ stack' = <<Frame(allDependencies, FALSE)>>
    /\ visited' = {}
    /\ UNCHANGED <<names, baseColor, world, payload, allDependencies, direct,
                   allRegistryNames, uniqueRegistryNames, registryItems,
                   pending, rResult, beforeSort>>
    /\ UNCHANGED <<rateVars, addVars, pathVars, laterVars>>

Top == stack[Len(stack)]

InRecursion == rPc \in {"deps", "items"} /\ stack # <<>>

HasDep == InRecursion /\ Top.i <= Len(Top.deps)

CurrentDep == Top.deps[Top.i]

ReplaceTop(stk, f) == [stk EXCEPT ![Len(stk)] = f]

\* for (const dep of dependencies): a dependency seen before is skipped.
RdrSkipVisited ==
    /\ HasDep
    /\ IsVisited(CurrentDep, visited)
    /\ stack' = ReplaceTop(stack, [Top EXCEPT !.i = @ + 1])
    /\ UNCHANGED <<rPc, names, baseColor, world, payload, allDependencies,
                   direct, visited, allRegistryNames, uniqueRegistryNames,
                   registryItems, pending, rResult, beforeSort>>
    /\ UNCHANGED <<rateVars, addVars, pathVars, laterVars>>

\* The nested calls have outgrown the depth the model follows.
Diverges ==
    /\ rPc' = "diverged"
    /\ UNCHANGED <<stack, rResult>>

\* A URL or local file dependency: fetched, kept as an item, its own
\* dependencies resolved by a nested call outside any try block.
RdrUrlOrFile ==
    /\ HasDep
    /\ ~IsVisited(CurrentDep, visited)
    /\ isUrl(CurrentDep) \/ isLocalFile(CurrentDep)
    /\ visited' = VisitedAdd(visited, CurrentDep)
    /\ \E doc \in Served(CurrentDep) :
        /\ world' = [world EXCEPT ![CurrentDep] = doc]
        /\ IF doc.outcome = "ok"
           THEN LET next == [Top EXCEPT !.i = @ + 1,
                                        !.items = Append(@, Item(CurrentDep, doc))]
                IN  IF doc.deps = <<>>
                    THEN /\ stack' = ReplaceTop(stack, next)
                         /\ UNCHANGED <<rPc, rResult>>
                    ELSE IF Len(stack) >= MaxDepth
                    THEN Diverges
                    ELSE /\ stack' = Append(ReplaceTop(stack, next),
                                            Frame(doc.deps, FALSE))
                         /\ UNCHANGED <<rPc, rResult>>
           ELSE IF Unwind(stack) = <<>>
                THEN Throws
                ELSE /\ stack' = Unwind(stack)
                     /\ UNCHANGED <<rPc, rResult>>
    /\ UNCHANGED <<names, baseColor, payload, allDependencies, direct,
                   allRegistryNames, uniqueRegistryNames, registryItems,
                   pending, beforeSort>>
    /\ UNCHANGED <<rateVars, addVars, pathVars, laterVars>>

\* A catalog name: recorded, then fetched inside a try block to follow its
\* dependencies; a failure of the fetch is swallowed.
RdrRegistryName ==
    /\ HasDep
    /\ ~IsVisited(CurrentDep, visited)
    /\ ~(isUrl(CurrentDep) \/ isLocalFile(CurrentDep))
    /\ visited' = VisitedAdd(visited, CurrentDep)
    /\ \E doc \in Served(CurrentDep) :
        /\ world' = [world EXCEPT ![CurrentDep] = doc]
        /\ LET next == [Top EXCEPT !.i = @ + 1, !.names = Append(@, CurrentDep)]
           IN  IF ~(doc.outcome = "ok" /\ doc.deps # <<>>)
               THEN /\ stack' = ReplaceTop(stack, next)
                    /\ UNCHANGED <<rPc, rResult>>
               ELSE IF Len(stack) >= MaxDepth
               THEN Diverges
               ELSE /\ stack' = Append(ReplaceTop(stack, next),
                                       Frame(doc.deps, TRUE))
                    /\ UNCHANGED <<rPc, rResult>>
    /\ UNCHANGED <<names, baseColor, payload, allDependencies, direct,
                   allRegistryNames, uniqueRegistryNames, registryItems,
                   pending, beforeSort>>
    /\ UNCHANGED <<rateVars, addVars, pathVars, laterVars>>

\* return { items, registryNames } of a nested call: the caller appends both.
RdrReturn ==
    /\ InRecursion
    /\ Top.i > Len(Top.deps)
    /\ Len(stack) > 1
    /\ LET caller == stack[Len(stack) - 1]
           merged == [caller EXCEPT !.items = @ \o Top.items,
                                    !.names = @ \o Top.names]
       IN  stack' = Append(SubSeq(stack, 1, Len(stack) - 2), merged)
    /\ UNCHANGED <<rPc, names, baseColor, world, payload, allDependencies,
                   direct, visited, allRegistryNames, uniqueRegistryNames,
                   registryItems, pending, rResult, beforeSort>>
    /\ UNCHANGED <<rateVars, addVars, pathVars, laterVars>>

IsRegistryName(ref) == ~isLocalFile(ref) /\ ~isUrl(ref)

\* The outermost call returns to registryResolveItemsTree:
\* payload.push(...dependencyItems); allRegistryNames is built.
DepsReturn ==
    /\ rPc = "deps"
    /\ Len(stack) = 1
    /\ Top.i > Len(Top.deps)
    /\ payload' = payload \o Top.items
    /\ allRegistryNames' = SelectSeq(names, IsRegistryName) \o Top.names
    /\ stack' = <<>>
    /\ rPc' = IF allRegistryNames' = <<>> THEN "check" ELSE "index"
    /\ UNCHANGED <<names, baseColor, world, allDependencies, direct, visited,
                   uniqueRegistryNames, registryItems, pending, rResult, beforeSort>>
    /\ UNCHANGED <<rateVars, addVars, pathVars, laterVars>>

\* getRegistryIndex(): its catch block ends in handleError, so a failed
\* index fetch throws; otherwise the unique names are computed, with "index"
\* put in front a second time.
GetIndex ==
    /\ rPc = "index"
    /\ \E ok \in BOOLEAN :
        IF ok
        THEN /\ uniqueRegistryNames' =
                    (IF Includes(allRegistryNames, "index") THEN <<"index">> ELSE <<>>)
                        \o Dedupe(allRegistryNames)
             /\ pending' = uniqueRegistryNames'
             /\ registryItems' = <<>>
             /\ rPc' = "items"
             /\ UNCHANGED <<rResult, stack>>
        ELSE /\ Throws
             /\ UNCHANGED <<uniqueRegistryNames, pending, registryItems>>
    /\ UNCHANGED <<names, baseColor, world, payload, allDependencies, direct,
                   visited, allRegistryNames, beforeSort>>
    /\ UNCHANGED <<rateVars, addVars, pathVars, laterVars>>

\* resolveRegistryItems: resolveRegistryDependencies(name, config) calls
\* resolveDependenciesRecursively([name], config) with a new visited set.
ItemsCall ==
    /\ rPc = "items"
    /\ stack = <<>>
    /\ pending # <<>>
    /\ stack' = <<Frame(<<Head(pending)>>, FALSE)>>
    /\ visited' = {}
    /\ UNCHANGED <<rPc, names, baseColor, world, payload, allDependencies,
                   direct, allRegistryNames, uniqueRegistryNames,
                   registryItems, pending, rResult, beforeSort>>
    /\ UNCHANGED <<rateVars, addVars, pathVars, laterVars>>

\* resolveRegistryDependencies returns the URLs of the registry names found
\* (one URL per name, so a name stands for its URL); the items are dropped.
ItemsReturn ==
    /\ rPc = "items"
    /\ Len(stack) = 1
    /\ Top.i > Len(Top.deps)
    /\ registryItems' = registryItems \o Dedupe(Top.names)
    /\ pending' = Tail(pending)
    /\ stack' = <<>>
    /\ UNCHANGED <<rPc, names, baseColor, world, payload, allDependencies,
                   direct, visited, allRegistryNames, uniqueRegistryNames,
                   rResult, beforeSort>>
    /\ UNCHANGED <<rateVars, addVars, pathVars, laterVars>>

\* fetchRegistry(registryItems) and the safeParse of its result: one failed
\* fetch fails them all (Promise.all, then handleError); a document that is
\* no registry item turns the whole result into placeholders.
ItemsFetch ==
    /\ rPc = "items"
    /\ stack = <<>>
    /\ pending = <<>>
    /\ LET urls == Dedupe(registryItems)
           doc(ref) == world[ref]
       IN  IF \E i \in 1..Len(urls) : doc(urls[i]).outcome # "ok"
                                        /\ doc(urls[i]).outcome # "badshape"
           THEN /\ Throws
                /\ UNCHANGED payload
           ELSE /\ payload' =
                    IF \E i \in 1..Len(urls) : doc(urls[i]).outcome = "badshape"
                    THEN payload \o MapSeq(uniqueRegistryNames, Placeholder)
                    ELSE payload \o [i \in 1..Len(urls) |-> Item(urls[i], doc(urls[i]))]
                /\ rPc' = "check"
                /\ UNCHANGED <<rResult, stack>>
    /\ UNCHANGED <<names, baseColor, world, allDependencies, direct, visited,
                   allRegistryNames, uniqueRegistryNames, registryItems, pending, beforeSort>>
    /\ UNCHANGED <<rateVars, addVars, pathVars, laterVars>>

\* if (!payload.length) return null; then the theme is wanted for "index"
\* when the project configuration (an input, read here) has a base colour.
CheckPayload ==
    /\ rPc = "check"
    /\ IF payload = <<>>
       THEN rPc' = "done" /\ rResult' = "null" /\ UNCHANGED baseColor
       ELSE IF Includes(allRegistryNames, "index")
       THEN /\ baseColor' \in {"set", "unset"}
            /\ rPc' = IF baseColor' = "set" THEN "theme" ELSE "sort"
            /\ UNCHANGED rResult
       ELSE /\ rPc' = "sort"
            /\ UNCHANGED <<rResult, baseColor>>
    /\ UNCHANGED <<names, world, payload, allDependencies, direct,
                   stack, visited, allRegistryNames, uniqueRegistryNames,
                   registryItems, pending, beforeSort>>
    /\ UNCHANGED <<rateVars, addVars, pathVars, laterVars>>

\* registryGetTheme: getRegistryBaseColor ends in handleError on failure.
GetTheme ==
    /\ rPc = "theme"
    /\ \E ok \in BOOLEAN :
        IF ok
        THEN /\ payload' = <<ThemeItem>> \o payload
             /\ rPc' = "sort"
             /\ UNCHANGED <<rResult, stack>>
        ELSE /\ Throws
             /\ UNCHANGED payload
    /\ UNCHANGED <<names, baseColor, world, allDependencies, direct, visited,
                   allRegistryNames, uniqueRegistryNames, registryItems, pending, beforeSort>>
    /\ UNCHANGED <<rateVars, addVars, pathVars, laterVars>>

\* payload.sort(...), the merges over payload, and the tree is returned.
SortAndMerge ==
    /\ rPc = "sort"
    /\ beforeSort' = payload
    /\ payload' = SortPayload(payload)
    /\ rPc' = "done"
    /\ rResult' = "tree"
    /\ UNCHANGED <<names, baseColor, world, allDependencies, direct, stack,
                   visited, allRegistryNames, uniqueRegistryNames,
                   registryItems, pending>>
    /\ UNCHANGED <<rateVars, addVars, pathVars, laterVars>>

ResolveNext ==
    \/ ResolvePartition
    \/ DirectFetch
    \/ DirectDone
    \/ RdrSkipVisited
    \/ RdrUrlOrFile
    \/ RdrRegistryName
    \/ RdrReturn
    \/ DepsReturn
    \/ GetIndex
    \/ ItemsCall
    \/ ItemsReturn
    \/ ItemsFetch
    \/ CheckPayload
    \/ GetTheme
    \/ SortAndMerge

(***************************************************************************)
(* Project mutation pipeline (utils/add-components.ts)                     *)
(***************************************************************************)

\* Bounds of the pipeline model.
MaxCalls == 2           \* invocations of addComponents in one behaviour
MaxFiles == 2           \* files of the resolved tree

\* The updaters addProjectComponents calls, in the order of its text.
Steps == <<"updateTailwindConfig", "updateCssVars", "updateCss",
           "updateDependencies", "updateFiles">>

StepSet == {Steps[i] : i \in 1..Len(Steps)}

TargetPaths == {"ui/button.tsx", "ui/input.tsx", "hooks/use-toast.ts"}

TailwindConfigPath == "tailwind.config.ts"  \* config.resolvedPaths.tailwindConfig

TailwindCssPath == "app/globals.css"        \* config.resolvedPaths.tailwindCss

ProjectPaths == TargetPaths \cup {TailwindConfigPath, TailwindCssPath}

\* path.join(config.resolvedPaths.cwd, rel): what the updaters return
Absolute(rel) == [kind |-> "path", root |-> "cwd", rel |-> rel]

\* path.relative(config.resolvedPaths.cwd, p)
Relative(p) == p.rel

\* The tree of registryResolveItemsTree as the pipeline reads it: which
\* contributions are present, and the target paths of tree.files.
Trees ==
    [tailwind : BOOLEAN, cssVars : BOOLEAN, css : BOOLEAN,
     dependencies : BOOLEAN,
     files : {f \in SeqsUpTo(TargetPaths, MaxFiles) :
                 \A i, j \in 1..Len(f) : f[i] = f[j] => i = j}]

NoTree == [kind |-> "null"]

Undefined == [kind |-> "undefined"]

Disks == [ProjectPaths -> {"absent", "old", "new"}]

AddIdle ==
    /\ aPc = "idle"
    /\ aStep = 0
    /\ calls = 0
    /\ options = [overwrite |-> FALSE]
    /\ tree = NoTree
    /\ disk = [p \in ProjectPaths |-> "absent"]
    /\ manifest = FALSE
    /\ started = {}
    /\ finished = {}
    /\ returned = [s \in StepSet |-> Undefined]
    /\ filesModified = <<>>
    /\ diskAtWrite = [p \in ProjectPaths |-> "absent"]
    /\ results = <<>>

\* An initialised project (components.json, tailwind config and style sheet
\* present) whose target paths may or may not exist, and a request that
\* resolves to some tree or to none.
AddInit ==
    /\ aPc = "idle"
    /\ aStep = 0
    /\ calls = 0
    /\ options = [overwrite |-> FALSE]
    /\ tree \in Trees \cup {NoTree}
    /\ disk \in {d \in [ProjectPaths -> {"absent", "old"}] :
                    /\ d[TailwindConfigPath] = "old"
                    /\ d[TailwindCssPath] = "old"}
    /\ manifest = FALSE
    /\ started = {}
    /\ finished = {}
    /\ returned = [s \in StepSet |-> Undefined]
    /\ filesModified = <<>>
    /\ diskAtWrite = disk
    /\ results = <<>>

\* The promise is not awaited: the caller goes on at once.
NotAwaited(s, done) == TRUE

\* await updateX(...): the caller goes on when the promise has resolved
Awaited(s, done) == s \in done

\* updateFiles is always told to overwrite.
UpdateFilesOptionsForced(opts) == [overwrite |-> TRUE]

\* { overwrite: options.overwrite, ... } handed to updateFiles
UpdateFilesOptions(opts) == [overwrite |-> opts.overwrite]

\* The record updateFiles makes for one target path.
FileRecord(exists, overwrite) ==
    IF exists /\ ~overwrite THEN "skipped"
    ELSE IF exists THEN "updated"
    ELSE "created"

Failure(opts) ==
    [overwrite |-> opts.overwrite, outcome |-> "threw",
     filesCreated |-> <<>>, filesModified |-> <<>>]

\* addComponents(components, config, options) is called on a single-root
\* project, after the previous invocation has settled.
AddComponents ==
    /\ aPc \in {"idle", "done", "failed"}
    /\ calls < MaxCalls
    /\ calls' = calls + 1
    /\ \E ow \in BOOLEAN : options' = [overwrite |-> ow]
    /\ aPc' = "resolve"
    /\ aStep' = 0
    /\ started' = {}
    /\ finished' = {}
    /\ returned' = [s \in StepSet |-> Undefined]
    /\ filesModified' = <<>>
    /\ UNCHANGED <<tree, disk, manifest, diskAtWrite, results>>
    /\ UNCHANGED <<rateVars, resVars, pathVars, laterVars>>

\* const tree = await registryResolveItemsTree(...); if (!tree) throw
AddResolve ==
    /\ aPc = "resolve"
    /\ IF tree = NoTree
       THEN /\ aPc' = "failed"
            /\ results' = Append(results, Failure(options))
            /\ UNCHANGED aStep
       ELSE /\ aPc' = "call"
            /\ aStep' = 1
            /\ UNCHANGED results
    /\ UNCHANGED <<calls, options, tree, disk, manifest, started, finished,
                   returned, filesModified, diskAtWrite>>
    /\ UNCHANGED <<rateVars, resVars, pathVars, laterVars>>

\* The next updater is called and its promise awaited.
AddCall ==
    /\ aPc = "call"
    /\ started' = started \cup {Steps[aStep]}
    /\ aPc' = "await"
    /\ UNCHANGED <<aStep, calls, options, tree, disk, manifest, finished,
                   returned, filesModified, diskAtWrite, results>>
    /\ UNCHANGED <<rateVars, resVars, pathVars, laterVars>>

Running(s) == s \in started \ finished

Finish(s, value) ==
    /\ finished' = finished \cup {s}
    /\ returned' = [returned EXCEPT ![s] = value]

\* updateTailwindConfig(tree.tailwind?.config, config, ...)
UpdateTailwindConfig ==
    /\ Running("updateTailwindConfig")
    /\ IF tree.tailwind
       THEN /\ disk' = [disk EXCEPT ![TailwindConfigPath] = "new"]
            /\ Finish("updateTailwindConfig", Absolute(TailwindConfigPath))
       ELSE /\ UNCHANGED disk
            /\ Finish("updateTailwindConfig", Undefined)
    /\ UNCHANGED <<aPc, aStep, calls, options, tree, manifest, started,
                   filesModified, diskAtWrite, results>>
    /\ UNCHANGED <<rateVars, resVars, pathVars, laterVars>>

\* updateCssVars(tree.cssVars, config, ...)
UpdateCssVars ==
    /\ Running("updateCssVars")
    /\ IF tree.cssVars
       THEN /\ disk' = [disk EXCEPT ![TailwindCssPath] = "new"]
            /\ Finish("updateCssVars", Absolute(TailwindCssPath))
       ELSE /\ UNCHANGED disk
            /\ Finish("updateCssVars", Undefined)
    /\ UNCHANGED <<aPc, aStep, calls, options, tree, manifest, started,
                   filesModified, diskAtWrite, results>>
    /\ UNCHANGED <<rateVars, resVars, pathVars, laterVars>>

\* updateCss(tree.css, config, ...)
UpdateCss ==
    /\ Running("updateCss")
    /\ IF tree.css
       THEN /\ disk' = [disk EXCEPT ![TailwindCssPath] = "new"]
            /\ Finish("updateCss", Absolute(TailwindCssPath))
       ELSE /\ UNCHANGED disk
            /\ Finish("updateCss", Undefined)
    /\ UNCHANGED <<aPc, aStep, calls, options, tree, manifest, started,
                   filesModified, diskAtWrite, results>>
    /\ UNCHANGED <<rateVars, resVars, pathVars, laterVars>>

\* updateDependencies(tree.dependencies, tree.devDependencies, config, ...):
\* returns at once when both lists are empty, installs otherwise.
UpdateDependencies ==
    /\ Running("updateDependencies")
    /\ manifest' = (manifest \/ tree.dependencies)
    /\ Finish("updateDependencies", Undefined)
    /\ UNCHANGED <<aPc, aStep, calls, options, tree, disk, started,
                   filesModified, diskAtWrite, results>>
    /\ UNCHANGED <<rateVars, resVars, pathVars, laterVars>>

\* updateFiles(tree.files, config, { overwrite: options.overwrite, ... })
UpdateFiles ==
    /\ Running("updateFiles")
    /\ LET overwrite == UpdateFilesOptions(options).overwrite
           record(p) == FileRecord(disk[p] # "absent", overwrite)
           Recorded(kind) == SelectSeq(tree.files, LAMBDA p : record(p) = kind)
       IN  /\ disk' = [p \in ProjectPaths |->
                          IF Includes(tree.files, p) /\ record(p) # "skipped"
                          THEN "new" ELSE disk[p]]
           /\ Finish("updateFiles",
                     [kind |-> "files",
                      filesCreated |-> Recorded("created"),
                      filesUpdated |-> Recorded("updated"),
                      filesSkipped |-> Recorded("skipped")])
    /\ diskAtWrite' = disk
    /\ UNCHANGED <<aPc, aStep, calls, options, tree, manifest, started,
                   filesModified, results>>
    /\ UNCHANGED <<rateVars, resVars, pathVars, laterVars>>

\* The failure undoes what the earlier updaters wrote.
StepThrowsRollsBack ==
    /\ aPc = "await"
    /\ Running(Steps[aStep])
    /\ started' = started \ {Steps[aStep]}
    /\ aPc' = "failed"
    /\ results' = Append(results, Failure(options))
    /\ disk' = [disk EXCEPT ![TailwindConfigPath] = "old",
                            ![TailwindCssPath] = "old"]
    /\ manifest' = FALSE
    /\ UNCHANGED <<aStep, calls, options, tree, finished,
                   returned, filesModified, diskAtWrite>>
    /\ UNCHANGED <<rateVars, resVars, pathVars, laterVars>>

\* The awaited updater rejects (the file system or the package manager
\* fails): the exception leaves addProjectComponents.
StepThrows ==
    /\ aPc = "await"
    /\ Running(Steps[aStep])
    /\ started' = started \ {Steps[aStep]}
    /\ aPc' = "failed"
    /\ results' = Append(results, Failure(options))
    /\ UNCHANGED <<aStep, calls, options, tree, disk, manifest, finished,
                   returned, filesModified, diskAtWrite>>
    /\ UNCHANGED <<rateVars, resVars, pathVars, laterVars>>

\* The continuation of addProjectComponents after an await: the path an
\* updater returned is pushed on filesModified; after updateFiles the
\* result { filesCreated, filesModified: [...filesModified, ...filesUpdated] }
\* is returned, and executeAddCommand hands both lists on.
AddResume ==
    /\ aPc = "await"
    /\ Awaited(Steps[aStep], finished)
    /\ LET ret == returned[Steps[aStep]]
       IN  IF aStep < Len(Steps)
           THEN /\ filesModified' =
                      IF aStep <= 3 /\ ret.kind = "path"
                      THEN Append(filesModified, Relative(ret))
                      ELSE filesModified
                /\ aStep' = aStep + 1
                /\ aPc' = "call"
                /\ UNCHANGED results
           ELSE /\ IF ret.kind # "files"
                   THEN /\ aPc' = "failed"
                        /\ results' = Append(results, Failure(options))
                   ELSE /\ aPc' = "done"
                        /\ results' = Append(results,
                              [overwrite |-> options.overwrite,
                               outcome |-> "ok",
                               filesCreated |-> ret.filesCreated,
                               filesModified |->
                                   filesModified \o ret.filesUpdated])
                /\ UNCHANGED <<aStep, filesModified>>
    /\ UNCHANGED <<calls, options, tree, disk, manifest, started, finished,
                   returned, diskAtWrite>>
    /\ UNCHANGED <<rateVars, resVars, pathVars, laterVars>>

AddNext ==
    \/ AddComponents
    \/ AddResolve
    \/ AddCall
    \/ UpdateTailwindConfig
    \/ UpdateCssVars
    \/ UpdateCss
    \/ UpdateDependencies
    \/ UpdateFiles
    \/ StepThrows
    \/ AddResume

(***************************************************************************)
(* Workspace path guard (utils/security.ts)                                *)
(***************************************************************************)

\* Strings are sequences of characters. Directory names are one letter:
\* "w" is the workspace, "e" a system directory (etc); NUL is the null byte;
\* "j" stands for the letters json.
MaxPathLen == 4

NUL == "NUL"

Chars == {"/", ".", "w", "e", "~", "j", NUL}

PathInputs == SeqsUpTo(Chars, MaxPathLen)

DefaultCwd == <<"/", "w">>              \* const defaultCwd = "/workspace"

EnvWorkspaceDir == <<"/", "w", "w">>    \* process.env.WORKSPACE_DIR when set

WorkspaceDir == DefaultCwd              \* the boundary; also process.cwd()

ForbiddenPaths == {<<"/", "e">>}        \* const forbiddenPaths = ["/etc", ...]

\* String.prototype.startsWith
StartsWith(s, prefix) ==
    Len(s) >= Len(prefix) /\ SubSeq(s, 1, Len(prefix)) = prefix

\* String.prototype.endsWith
EndsWith(s, suffix) ==
    Len(s) >= Len(suffix)
    /\ SubSeq(s, Len(s) - Len(suffix) + 1, Len(s)) = suffix

\* String.prototype.includes, and an unanchored literal pattern
Contains(s, sub) ==
    \E i \in 1..(Len(s) - Len(sub) + 1) : SubSeq(s, i, i + Len(sub) - 1) = sub

\* s.split("/")
RECURSIVE Segments(_)
Segments(s) ==
    IF s = <<>> THEN << <<>> >>
    ELSE LET rest == Segments(Tail(s))
         IN  IF Head(s) = "/" THEN << <<>> >> \o rest
             ELSE << <<Head(s)>> \o rest[1] >> \o Tail(rest)

\* The segments of an absolute path with "", "." and ".." resolved.
RECURSIVE Walk(_, _)
Walk(segs, acc) ==
    IF segs = <<>> THEN acc
    ELSE LET g == Head(segs)
         IN  Walk(Tail(segs),
                  IF g = <<>> \/ g = <<".">> THEN acc
                  ELSE IF g = <<".", ".">>
                       THEN SubSeq(acc, 1, Len(acc) - 1)
                       ELSE Append(acc, g))

RECURSIVE Join(_)
Join(segs) ==
    IF segs = <<>> THEN <<>> ELSE <<"/">> \o Head(segs) \o Join(Tail(segs))

AbsoluteOf(segs) == IF segs = <<>> THEN <<"/">> ELSE Join(segs)

\* path.resolve(base, p) for an absolute base (posix)
PathResolve(base, p) ==
    AbsoluteOf(Walk(Segments(IF StartsWith(p, <<"/">>) THEN p
                             ELSE base \o <<"/">> \o p), <<>>))

\* path.normalize(p) for an absolute p (posix): a trailing slash is kept
PathNormalize(p) ==
    LET q == AbsoluteOf(Walk(Segments(p), <<>>))
    IN  IF EndsWith(p, <<"/">>) /\ q # <<"/">> THEN q \o <<"/">> ELSE q

Threw == [outcome |-> "threw", value |-> <<>>, source |-> "none"]

Returned(value, source) ==
    [outcome |-> "returned", value |-> value, source |-> source]

\* const dangerousPatterns = [...]; pattern.test(processedPath)
Dangerous(processedPath) ==
    \/ Contains(processedPath, <<".", ".">>)
    \/ Contains(processedPath, <<"/", ".", ".">>)
    \/ Contains(processedPath, <<"\\", ".", ".">>)
    \/ EndsWith(processedPath, <<".", ".">>)
    \/ EndsWith(processedPath, <<"/">>)
    \/ StartsWith(processedPath, <<"/">>)

\* validateWorkspacePath(inputPath, workspaceDir)
ValidateWorkspacePath(input, workspaceDir) ==
    IF input = <<>> THEN Threw
    ELSE IF Contains(input, <<NUL>>) THEN Threw
    ELSE
      LET home == StartsWith(input, <<"~", "/">>)
          processedPath == IF home THEN SubSeq(input, 3, Len(input)) ELSE input
          normalizedPath ==
              PathNormalize(PathResolve(workspaceDir, processedPath))
          normalizedWorkspace == PathNormalize(workspaceDir)
      IN  IF home /\ (\/ Contains(processedPath, <<".", ".">>)
                      \/ StartsWith(processedPath, <<"/">>))
          THEN Threw
          ELSE IF /\ ~StartsWith(normalizedPath, normalizedWorkspace \o <<"/">>)
                  /\ normalizedPath # normalizedWorkspace
          THEN Threw
          ELSE IF Dangerous(processedPath) THEN Threw
          ELSE Returned(normalizedPath, "input")

\* The caller's cwd is taken whenever there is one.
GetSafeWorkspaceCwdInputFirst(rawCwd, defaultExists, env) ==
    IF rawCwd # <<>> THEN Returned(rawCwd, "input")
    ELSE IF defaultExists THEN Returned(DefaultCwd, "default")
    ELSE IF env # <<>> THEN Returned(env, "env")
    ELSE Threw

\* getSafeWorkspaceCwd(rawCwd), where defaultExists is
\* fs.existsSync("/workspace") and env is process.env.WORKSPACE_DIR
\* ("" when unset)
GetSafeWorkspaceCwd(rawCwd, defaultExists, env) ==
    IF defaultExists THEN Returned(DefaultCwd, "default")
    ELSE IF env # <<>> THEN Returned(env, "env")
    ELSE IF rawCwd # <<>> THEN Returned(rawCwd, "input")
    ELSE Threw

\* validateWorkingDirectory(cwd)
ValidateWorkingDirectory(cwd) ==
    IF cwd = <<>> THEN Threw
    ELSE IF cwd = DefaultCwd THEN Returned(DefaultCwd, "input")
    ELSE LET normalizedCwd == PathNormalize(PathResolve(WorkspaceDir, cwd))
         IN  IF \E forbidden \in ForbiddenPaths :
                    StartsWith(normalizedCwd, forbidden)
             THEN Threw
             ELSE Returned(normalizedCwd, "input")

\* os.homedir(): outside the workspace, or a directory of the workspace
Homedirs == {<<"/", "e">>, <<"/", "w", "e">>}

\* path.join(dir, p) for an absolute dir (posix)
PathJoin(dir, p) ==
    IF p = <<>> THEN PathNormalize(dir)
    ELSE PathNormalize(dir \o <<"/">> \o p)

\* The file is read where the reference points, without the guard.
GetLocalRegistryItemUnguarded(filePath, homedir, env) ==
    LET workspaceDir == IF env # <<>> THEN env ELSE WorkspaceDir
        expandedPath == IF StartsWith(filePath, <<"~", "/">>)
                        THEN PathJoin(homedir, SubSeq(filePath, 3, Len(filePath)))
                        ELSE filePath
        safePath == PathResolve(workspaceDir, expandedPath)
    IN  IF ~EndsWith(safePath, <<".", "j">>) THEN Threw
        ELSE Returned(safePath, IF env # <<>> THEN "env" ELSE "cwd")

\* getLocalRegistryItem(filePath) up to fs.readFile(safePath): the path
\* it reads, or that it throws (handleError rethrows what the try block
\* throws); env is process.env.WORKSPACE_DIR ("" when unset)
GetLocalRegistryItem(filePath, homedir, env) ==
    LET workspaceDir == IF env # <<>> THEN env ELSE WorkspaceDir
        expandedPath == IF StartsWith(filePath, <<"~", "/">>)
                        THEN PathJoin(homedir, SubSeq(filePath, 3, Len(filePath)))
                        ELSE filePath
        safePath == ValidateWorkspacePath(expandedPath, workspaceDir)
    IN  IF safePath.outcome = "threw" THEN Threw
        ELSE IF ~EndsWith(safePath.value, <<".", "j">>) THEN Threw
        ELSE Returned(safePath.value, IF env # <<>> THEN "env" ELSE "cwd")

NoResult == [fn |-> "none", outcome |-> "none", value |-> <<>>,
             source |-> "none"]

Applied(fn, result) ==
    [fn |-> fn, outcome |-> result.outcome, value |-> result.value,
     source |-> result.source]

PathIdle ==
    /\ pPc = "idle"
    /\ inputPath = <<>>
    /\ pResult = NoResult

\* A caller holds a string it was given as a path or a working directory.
PathInit ==
    /\ pPc = "idle"
    /\ inputPath \in PathInputs
    /\ pResult = NoResult

\* A file reference is checked against the workspace directory.
GuardFilePath ==
    /\ pPc = "idle"
    /\ pPc' = "done"
    /\ pResult' = Applied("validateWorkspacePath",
                          ValidateWorkspacePath(inputPath, WorkspaceDir))
    /\ UNCHANGED inputPath
    /\ UNCHANGED <<rateVars, resVars, addVars, laterVars>>

\* A tool is called with cwd = inputPath.
GuardToolCwd ==
    /\ pPc = "idle"
    /\ pPc' = "done"
    /\ \E defaultExists \in BOOLEAN, env \in {<<>>, EnvWorkspaceDir} :
           pResult' = Applied("getSafeWorkspaceCwd",
                         GetSafeWorkspaceCwd(inputPath, defaultExists, env))
    /\ UNCHANGED inputPath
    /\ UNCHANGED <<rateVars, resVars, addVars, laterVars>>

\* A command is about to be run in the directory inputPath.
GuardCommandCwd ==
    /\ pPc = "idle"
    /\ pPc' = "done"
    /\ pResult' = Applied("validateWorkingDirectory",
                          ValidateWorkingDirectory(inputPath))
    /\ UNCHANGED inputPath
    /\ UNCHANGED <<rateVars, resVars, addVars, laterVars>>

\* The catalog client is given inputPath as a local-file reference.
ReadLocalFile ==
    /\ pPc = "idle"
    /\ pPc' = "done"
    /\ \E homedir \in Homedirs, env \in {<<>>, EnvWorkspaceDir} :
           pResult' = Applied("getLocalRegistryItem",
                         GetLocalRegistryItem(inputPath, homedir, env))
    /\ UNCHANGED inputPath
    /\ UNCHANGED <<rateVars, resVars, addVars, laterVars>>

PathNext ==
    \/ ReadLocalFile
    \/ GuardFilePath
    \/ GuardToolCwd
    \/ GuardCommandCwd

(***************************************************************************)
(* Tool boundary: the six tool handlers, runInit and executeAddCommand     *)
(***************************************************************************)

\* Tool invocations served in one run of the server.
MaxServed == 2

\* Longest components array of a request.
MaxComponents == 2

ToolNames == {"get_init_instructions", "execute_init", "get_items",
              "get_item", "add_item", "execute_add"}

\* const DEPRECATED_COMPONENTS = [{ name: "toast", ... }, { name: "toaster", ... }]
DEPRECATED_COMPONENTS == {"toast", "toaster"}

ComponentNames == {"button", "toast", "toaster", "https://r/u1"}

ComponentLists == SeqsUpTo(ComponentNames, MaxComponents)

\* A cwd string a caller can supply ("" is <<>>).
UserCwd == <<"/", "w", "e">>

\* The project directory the tools work on: package.json present,
\* components.json absent / the user's ("old") / written by runInit ("new"),
\* component files written, packages installed.
Projects == [pkg : BOOLEAN, config : {"absent", "old", "new"},
             files : BOOLEAN, installed : BOOLEAN,
             created : {"none", "bare", "configured", "components"}]

NoRequest == [tool |-> "none"]

NoResponse == [kind |-> "none", message |-> "none"]

\* What a function call ends in: kind "ok" (returned), "threw" (an
\* exception travels to the caller), "isError" (a response with
\* isError: true was returned) or "exit" (process.exit was called);
\* log lists the effects in program order.
InLogOf(log, e) == \E i \in 1..Len(log) : log[i] = e

Out(kind, message, log, project) ==
    [kind |-> kind, message |-> message, log |-> log, project |-> project]

\* process.exit(1) whatever main is
HandleErrorExits(main) == "exit"

\* handleError(error, main = false)
HandleError(main) == IF main THEN "exit" ELSE "threw"

\* catch (error) { handleError(error) } of the registry functions: no
\* caller passes main
Raised(message, log, project) ==
    Out(HandleError(FALSE), message, log, project)

\* catch (error) { return { content: [...], isError: true } }
Catch(r) == IF r.kind = "threw" THEN [r EXCEPT !.kind = "isError"] ELSE r

\* getRegistry(registryUrl): fetchRegistry([`${registryUrl}/index.json`])
GetRegistry(req, project) ==
    IF req.fetchOk THEN Out("ok", "ok", <<"fetch">>, project)
    ELSE Raised("fetch failed", <<"fetch">>, project)

\* getItems(args): parse, then getRegistry; there is no try
GetItems(req, project) ==
    IF ~req.shapeOk THEN Out("threw", "invalid input", <<>>, project)
    ELSE GetRegistry(req, project)

\* getInitInstructions(args): parse, then getRegistry; there is no try
GetInitInstructions(req, project) ==
    IF ~req.shapeOk THEN Out("threw", "invalid input", <<>>, project)
    ELSE GetRegistry(req, project)

\* getItem(args): parse, then getRegistryItem(itemUrl, ""); there is no try
GetItem(req, project) ==
    IF ~req.shapeOk THEN Out("threw", "invalid input", <<>>, project)
    ELSE IF req.fetchOk THEN Out("ok", "ok", <<"fetch">>, project)
    ELSE Raised("fetch failed", <<"fetch">>, project)

\* addComponents(components, config, options) as its callers see it:
\* resolves the tree from the catalog, installs, writes the files
AddComponentsCall(req, project, log) ==
    IF ~req.fetchOk
    THEN Raised("fetch failed", log \o <<"fetch">>, project)
    ELSE IF ~req.installOk
    THEN Out("threw", "install failed", log \o <<"fetch", "install">>,
             project)
    ELSE Out("ok", "ok", log \o <<"fetch", "install", "write">>,
             [project EXCEPT !.files = TRUE, !.installed = TRUE])

ConfigExistsMessage == "components.json already exists"

\* An existing components.json is never looked at.
ConfigNeverBlocks(configExists, force) == FALSE

\* fs.existsSync(path.resolve(options.cwd, "components.json")) && !options.force
ConfigBlocks(configExists, force) == configExists /\ ~force

\* The components are added first, components.json is written last.
InitConfigureAfterAdd(req, project, log) ==
    LET r == AddComponentsCall(req, project, log)
    IN  IF r.kind # "ok" THEN r
        ELSE [r EXCEPT !.log = @ \o <<"writeConfig">>,
                       !.project = [@ EXCEPT !.config = "new"]]

\* runInit from "const projectConfig = await getProjectConfig" on:
\* writes components.json, then addComponents with overwrite: true
InitConfigure(req, project, log) ==
    AddComponentsCall(req, [project EXCEPT !.config = "new"],
                      log \o <<"writeConfig">>)

\* What getProjectInfo found missing: errors[TAILWIND_NOT_CONFIGURED],
\* errors[IMPORT_ALIAS_MISSING]
PreflightSignals == {"none", "TAILWIND_NOT_CONFIGURED", "IMPORT_ALIAS_MISSING"}

\* if (Object.keys(errors).length > 0) { ... throw new Error('') }
PreflightErrorMessage(missing) == ""

\* The project createProject has just made in `${options.cwd}/my-app`
NewProject ==
    [pkg |-> TRUE, config |-> "absent", files |-> FALSE,
     installed |-> FALSE, created |-> "none"]

\* How far the project below the directory has got.
StageOf(sub) ==
    IF sub.files THEN "components"
    ELSE IF sub.config = "new" THEN "configured"
    ELSE "bare"

\* options.cwd = projectPath: what follows the creation happens in the
\* created project, the directory itself keeps what it had
InCreated(project, r) ==
    [r EXCEPT !.project = [project EXCEPT !.created = StageOf(r.project)]]

\* createProject(options): the project is made in a directory of its own
\* below options.cwd, unless one is there already
CreateProject(req, project, log) ==
    IF project.created # "none"
    THEN Out("threw", "A project with the name my-app already exists",
             log \o <<"createProject">>, project)
    ELSE IF ~req.installOk
    THEN Out("threw", "create failed", log \o <<"createProject">>, project)
    ELSE Out("ok", "ok", log \o <<"createProject", "write">>, project)

\* The configuration is written into the directory without a
\* package.json itself.
RunInitInPlace(req, force, project, log) ==
    LET pre == log \o <<"preflight">>
    IN  IF ~project.pkg
        THEN InitConfigure(req, project, pre)
        ELSE IF ConfigBlocks(project.config # "absent", force)
        THEN Out("threw", ConfigExistsMessage, pre, project)
        ELSE IF ~req.frameworkOk
        THEN Out("threw", "unsupported project", pre \o <<"projectInfo">>,
                 project)
        ELSE IF req.missing # "none"
        THEN Out("threw", PreflightErrorMessage(req.missing),
                 pre \o <<"projectInfo">>, project)
        ELSE InitConfigure(req, project, pre \o <<"projectInfo">>)

\* runInit(options) with skipPreflight unset: preFlightInit, createProject
\* for a missing or empty directory, then the configuration
RunInit(req, force, project, log) ==
    LET pre == log \o <<"preflight">>
    IN  IF ~project.pkg
        THEN LET made == CreateProject(req, project, pre)
             IN  IF made.kind # "ok" THEN made
                 ELSE InCreated(project,
                                InitConfigure(req, NewProject, made.log))
        ELSE IF ConfigBlocks(project.config # "absent", force)
        THEN Out("threw", ConfigExistsMessage, pre, project)
        ELSE IF ~req.frameworkOk
        THEN Out("threw", "unsupported project", pre \o <<"projectInfo">>,
                 project)
        ELSE IF req.missing # "none"
        THEN Out("threw", PreflightErrorMessage(req.missing),
                 pre \o <<"projectInfo">>, project)
        ELSE InitConfigure(req, project, pre \o <<"projectInfo">>)

\* executeInit(args): parse and getSafeWorkspaceCwd before the try,
\* runInit inside it
ExecuteInit(req, project) ==
    IF ~req.shapeOk THEN Out("threw", "invalid input", <<>>, project)
    ELSE IF GetSafeWorkspaceCwd(req.cwd, req.workspaceExists,
                                req.envDir).outcome = "threw"
    THEN Out("threw", "no safe cwd", <<>>, project)
    ELSE Catch(RunInit(req, req.force, project, <<>>))

\* preFlightAdd(options): the error it reports for the project
PreFlightAdd(project) ==
    IF ~project.pkg THEN "MISSING_DIR_OR_EMPTY_PROJECT"
    ELSE IF project.config = "absent" THEN "MISSING_CONFIG"
    ELSE "none"

SonnerMessage == "Deprecated components found: Use the sonner component instead."

\* No component counts as deprecated.
NoneDeprecated(components) == FALSE

\* DEPRECATED_COMPONENTS.filter((component) =>
\*     addOptions.components?.includes(component.name)).length
HasDeprecated(components) ==
    \E i \in 1..Len(components) : components[i] \in DEPRECATED_COMPONENTS

\* force: addOptions.initOptions?.force || false
InitForce(req) == req.force

\* Initialization is run whatever the preflight reports.
NeedsInitAlways(errors) == TRUE

\* if (errors[ERRORS.MISSING_CONFIG])
NeedsInit(errors) == errors = "MISSING_CONFIG"

\* executeAddCommand from "await preFlightAdd(addOptions)" on: runInit for
\* a missing configuration, createProjectMcp and runInit for a missing
\* project, then addComponents
AddAfterChecks(req, project, log) ==
    LET pre == log \o <<"preflight">>
        errors == PreFlightAdd(project)
        ran == <<"init">> \o (IF InitForce(req) THEN <<"force">> ELSE <<>>)
        init ==
            IF errors = "MISSING_DIR_OR_EMPTY_PROJECT"
            THEN LET made == CreateProject(req, project, pre)
                 IN  IF made.kind # "ok" THEN made
                     ELSE RunInit(req, InitForce(req), NewProject,
                                  made.log \o ran)
            ELSE IF NeedsInit(errors)
            THEN RunInit(req, InitForce(req), project, pre \o ran)
            ELSE Out("ok", "ok", pre, project)
        added == IF init.kind # "ok" THEN init
                 ELSE AddComponentsCall(req, init.project, init.log)
    IN  IF errors = "MISSING_DIR_OR_EMPTY_PROJECT"
           /\ InLogOf(added.log, "init")
        THEN InCreated(project, added)
        ELSE added

\* executeAddCommand(options): its catch rethrows
ExecuteAddCommand(req, cwd, components, project) ==
    IF ~req.shapeOk THEN Out("threw", "invalid input", <<>>, project)
    ELSE IF GetSafeWorkspaceCwd(cwd, req.workspaceExists,
                                req.envDir).outcome = "threw"
    THEN Out("threw", "no safe cwd", <<>>, project)
    ELSE IF components # <<>> /\ (isUrl(components[1])
                                     \/ isLocalFile(components[1]))
                              /\ ~req.fetchOk
    THEN Raised("fetch failed", <<"fetch">>, project)
    ELSE
      LET log1 == IF components # <<>> /\ (isUrl(components[1])
                                            \/ isLocalFile(components[1]))
                  THEN <<"fetch">> ELSE <<>>
      IN  IF components = <<>>
          THEN IF ~req.fetchOk
               THEN Raised("fetch failed", log1 \o <<"fetch">>, project)
               ELSE Out("threw", "No components specified to add.",
                        log1 \o <<"fetch">>, project)
          ELSE IF req.tailwindVersion = "v4" /\ HasDeprecated(components)
          THEN Out("threw", SonnerMessage, log1 \o <<"projectInfo">>,
                   project)
          ELSE AddAfterChecks(req, project, log1 \o <<"projectInfo">>)

\* addItem(args): parse and getSafeWorkspaceCwd() before the try,
\* executeAddCommand({ components: [name], cwd }) inside it
AddItem(req, project) ==
    IF ~req.shapeOk THEN Out("threw", "invalid input", <<>>, project)
    ELSE LET cwd == GetSafeWorkspaceCwd(<<>>, req.workspaceExists,
                                        req.envDir)
         IN  IF cwd.outcome = "threw"
             THEN Out("threw", "no safe cwd", <<>>, project)
             ELSE Catch(ExecuteAddCommand(req, cwd.value, req.components,
                                          project))

EmptyListMessage == "Components array is required and cannot be empty"

\* executeAdd(args): parse, the empty-array check and the choice of cwd
\* before the try, executeAddCommand inside it
ExecuteAdd(req, project) ==
    IF ~req.shapeOk THEN Out("threw", "invalid input", <<>>, project)
    ELSE IF req.components = <<>>
    THEN Out("threw", EmptyListMessage, <<>>, project)
    ELSE IF ~req.workspaceExists /\ req.envDir = <<>>
    THEN Out("threw", "WORKSPACE_DIR is not set", <<>>, project)
    ELSE Catch(ExecuteAddCommand(
                   req,
                   IF req.workspaceExists THEN DefaultCwd ELSE req.envDir,
                   req.components, project))

\* server.tool(name, ..., handler): the handler registered under the name
Handle(req, project) ==
    CASE req.tool = "get_init_instructions" -> GetInitInstructions(req, project)
      [] req.tool = "execute_init" -> ExecuteInit(req, project)
      [] req.tool = "get_items" -> GetItems(req, project)
      [] req.tool = "get_item" -> GetItem(req, project)
      [] req.tool = "add_item" -> AddItem(req, project)
      [] req.tool = "execute_add" -> ExecuteAdd(req, project)

\* No working directory was looked for.
NoDir == [outcome |-> "none", value |-> <<>>, source |-> "none"]

\* let cwd = rawCwd; if (cwd !== "/workspace") { ... } of executeAdd, whose
\* schema leaves rawCwd undefined
ExecuteAddCwd(req) ==
    IF req.workspaceExists THEN Returned(DefaultCwd, "default")
    ELSE IF req.envDir = <<>> THEN Threw
    ELSE Returned(req.envDir, "env")

\* const cwd = getSafeWorkspaceCwd(options.cwd) of executeAddCommand
CommandCwd(given, req) ==
    IF given.outcome = "threw" THEN Threw
    ELSE GetSafeWorkspaceCwd(given.value, req.workspaceExists, req.envDir)

\* The cwd a handler ends up handing to runInit or addComponents: Threw
\* when the search for it throws, NoDir when the handler does not get to it
ToolCwd(req) ==
    IF ~req.shapeOk THEN NoDir
    ELSE CASE req.tool = "execute_init" ->
                GetSafeWorkspaceCwd(req.cwd, req.workspaceExists, req.envDir)
           [] req.tool = "add_item" ->
                CommandCwd(GetSafeWorkspaceCwd(<<>>, req.workspaceExists,
                                               req.envDir), req)
           [] req.tool = "execute_add" ->
                IF req.components = <<>> THEN NoDir
                ELSE CommandCwd(ExecuteAddCwd(req), req)
           [] req.tool = "executeAddCommand" ->
                CommandCwd(Returned(req.cwd, "input"), req)
           [] OTHER -> NoDir

\* errorMessage of handleError for an Error: error.message, which the
\* Error it throws carries on
HandleErrorMessage(error) == error

\* A request with every input at its harmless value.
BaseRequest(tool) ==
    [tool |-> tool, shapeOk |-> TRUE, cwd |-> <<>>, components |-> <<>>,
     force |-> FALSE, workspaceExists |-> TRUE, envDir |-> <<>>,
     fetchOk |-> TRUE, tailwindVersion |-> "v3", frameworkOk |-> TRUE,
     installOk |-> TRUE, missing |-> "none"]

\* get_items, get_item, get_init_instructions: the shape of the arguments
\* and whether the catalog answers
ReadRequests ==
    {[BaseRequest(t) EXCEPT !.shapeOk = s, !.fetchOk = f] :
        t \in {"get_items", "get_item", "get_init_instructions"},
        s \in BOOLEAN, f \in BOOLEAN}

\* What the environment holds when a mutating tool runs: /workspace,
\* WORKSPACE_DIR, the catalog, the project's framework, the package manager.
Environments ==
    [workspaceExists : BOOLEAN, envDir : {<<>>, EnvWorkspaceDir},
     fetchOk : BOOLEAN, tailwindVersion : {"v3", "v4"},
     frameworkOk : BOOLEAN, installOk : BOOLEAN]

InEnvironment(req, e) ==
    [req EXCEPT !.workspaceExists = e.workspaceExists, !.envDir = e.envDir,
                !.fetchOk = e.fetchOk, !.tailwindVersion = e.tailwindVersion,
                !.frameworkOk = e.frameworkOk, !.installOk = e.installOk]

InitRequests ==
    {InEnvironment([BaseRequest("execute_init") EXCEPT
                        !.shapeOk = s, !.cwd = c, !.force = f,
                        !.missing = g], e) :
        s \in BOOLEAN, c \in {<<>>, UserCwd}, f \in BOOLEAN,
        g \in PreflightSignals, e \in Environments}

AddItemRequests ==
    {InEnvironment([BaseRequest("add_item") EXCEPT
                        !.shapeOk = s, !.components = <<n>>,
                        !.force = f], e) :
        s \in BOOLEAN, n \in ComponentNames, f \in BOOLEAN,
        e \in Environments}

ExecuteAddRequests ==
    {InEnvironment([BaseRequest("execute_add") EXCEPT
                        !.shapeOk = s, !.components = l, !.force = f], e) :
        s \in BOOLEAN, l \in ComponentLists, f \in BOOLEAN,
        e \in Environments}

ToolRequests ==
    ReadRequests \cup InitRequests \cup AddItemRequests
        \cup ExecuteAddRequests

\* executeAddCommand called by another module of the package
CommandRequests ==
    {InEnvironment([BaseRequest("executeAddCommand") EXCEPT
                        !.shapeOk = s, !.cwd = c, !.components = l,
                        !.force = f], e) :
        s \in BOOLEAN, c \in {<<>>, UserCwd}, l \in ComponentLists,
        f \in BOOLEAN, e \in Environments}

InitialProjects ==
    {p \in Projects : /\ p.config # "new" /\ ~p.files /\ ~p.installed
                      /\ p.created = "none"}

EmptyProject ==
    [pkg |-> FALSE, config |-> "absent", files |-> FALSE,
     installed |-> FALSE, created |-> "none"]

ToolsIdle ==
    /\ proc = "starting"
    /\ exitCause = "none"
    /\ served = 0
    /\ request = NoRequest
    /\ response = NoResponse
    /\ effects = <<>>
    /\ projectDir = EmptyProject
    /\ projectDirBefore = EmptyProject
    /\ workdir = NoDir

ToolsInit ==
    /\ proc = "starting"
    /\ exitCause = "none"
    /\ served = 0
    /\ request = NoRequest
    /\ response = NoResponse
    /\ effects = <<>>
    /\ projectDir \in InitialProjects
    /\ projectDirBefore = projectDir
    /\ workdir = NoDir

\* main() resolves: the tools are registered and the transport is connected
Startup ==
    /\ proc = "starting"
    /\ proc' = "ready"
    /\ UNCHANGED <<exitCause, served, request, response, effects, projectDir,
                   projectDirBefore, workdir>>
    /\ UNCHANGED <<baseVars, netVars, mergeVars>>

\* main().catch((error) => { ...; process.exit(1) })
StartupFails ==
    /\ proc = "starting"
    /\ proc' = "exited"
    /\ exitCause' = "main.catch"
    /\ UNCHANGED <<served, request, response, effects, projectDir,
                   projectDirBefore, workdir>>
    /\ UNCHANGED <<baseVars, netVars, mergeVars>>

\* process.on('SIGINT' | 'SIGTERM', () => { ...; process.exit(0) })
Signal ==
    /\ proc \in {"starting", "ready"}
    /\ \E sig \in {"SIGINT", "SIGTERM"} : exitCause' = sig
    /\ proc' = "exited"
    /\ UNCHANGED <<served, request, response, effects, projectDir,
                   projectDirBefore, workdir>>
    /\ UNCHANGED <<baseVars, netVars, mergeVars>>

\* The call of req has ended in r.
Serve(req, r) ==
    /\ request' = req
    /\ response' = [kind |-> r.kind, message |-> r.message]
    /\ effects' = r.log
    /\ projectDirBefore' = projectDir
    /\ projectDir' = r.project
    /\ served' = served + 1
    /\ proc' = IF r.kind = "exit" THEN "exited" ELSE proc
    /\ exitCause' = IF r.kind = "exit" THEN "handleError" ELSE exitCause
    /\ workdir' = ToolCwd(req)

\* A tools/call request is dispatched to its handler, which runs to its end.
ToolCall ==
    /\ proc = "ready"
    /\ request = NoRequest
    /\ served < MaxServed
    /\ \E req \in ToolRequests : Serve(req, Handle(req, projectDir))
    /\ UNCHANGED <<baseVars, netVars, mergeVars>>

\* executeAddCommand(options) called directly
CommandCall ==
    /\ proc = "ready"
    /\ request = NoRequest
    /\ served < MaxServed
    /\ \E req \in CommandRequests :
          Serve(req, ExecuteAddCommand(req, req.cwd, req.components,
                                       projectDir))
    /\ UNCHANGED <<baseVars, netVars, mergeVars>>

\* The outcome has been handed to the caller (for a tool, written to the
\* transport as the result of the request); the server awaits the next one.
Respond ==
    /\ proc = "ready"
    /\ request # NoRequest
    /\ request' = NoRequest
    /\ response' = NoResponse
    /\ effects' = <<>>
    /\ projectDirBefore' = projectDir
    /\ workdir' = NoDir
    /\ UNCHANGED <<proc, exitCause, served, projectDir>>
    /\ UNCHANGED <<baseVars, netVars, mergeVars>>

ToolsNext ==
    Startup \/ StartupFails \/ Signal \/ ToolCall \/ CommandCall \/ Respond

(***************************************************************************)
(* Catalog client: getRegistryUrl, validateRegistryUrl, fetchRegistry      *)
(***************************************************************************)

\* Calls of fetchRegistry in one run.
MaxFetches == 2

\* Redirects node-fetch follows in the model (redirect: 'follow').
MaxRedirects == 1

ALLOWED_PROTOCOLS == {"http:", "https:"}

ALLOWED_REGISTRY_HOSTS ==
    {"ui.shadcn.com", "localhost", "host.docker.internal", "127.0.0.1"}

HTTPS_REQUIRED_HOSTS == {"ui.shadcn.com"}

\* const allowedPorts = [80, 443, 3000, 3333, 8080, 8443]
allowedPorts == {"80", "443", "3000", "3333", "8080", "8443"}

\* const forbiddenPaths = [...]: what the first path segment may not begin with
forbiddenPaths == {"admin", ".env", "config", "system", "private"}

Schemes == {"http:", "https:", "ftp:"}

Hosts == {"ui.shadcn.com", "host.docker.internal", "evil.example"}

Ports == {"", "80", "3333", "22"}

UrlPaths == {<<"r", "index.json">>, <<"admin", "x.json">>,
             <<"chat", "b", "1">>}

\* No query, and one with a character of /[<>\"'&]/
Queries == {"", "v=<"}

\* A string new URL() parses, as its parts.
Urls ==
    [kind : {"url"}, scheme : Schemes, host : Hosts, port : Ports,
     path : UrlPaths, query : Queries]

\* Strings new URL() rejects: paths relative to REGISTRY_URL.
RelativePaths ==
    {[kind |-> "path", segments |-> s] :
        s \in {<<"index.json">>, <<"styles", "index.json">>,
               <<"..", "secret.json">>}}

FetchPaths == Urls \cup RelativePaths

\* process.env.REGISTRY_URL ?? "http://host.docker.internal:3333/r"
REGISTRY_URL ==
    [kind |-> "url", scheme |-> "http:", host |-> "host.docker.internal",
     port |-> "3333", path |-> <<"r">>, query |-> ""]

\* isUrl(path): new URL(path) does not throw
IsUrl(p) == p.kind = "url"

DefaultPort(scheme) ==
    IF scheme = "http:" THEN "80"
    ELSE IF scheme = "https:" THEN "443" ELSE ""

\* new URL(url): the port is dropped when it is the scheme's default
ParseUrl(u) ==
    [u EXCEPT !.port = IF u.port = DefaultPort(u.scheme) THEN "" ELSE u.port]

Invalid == [ok |-> FALSE]

Valid(u) == [ok |-> TRUE, url |-> u]

\* Every URL passes.
ValidateNothing(url) == Valid(ParseUrl(url))

\* validateRegistryUrl(url): throws, or returns parsedUrl.toString()
ValidateRegistryUrl(url) ==
    LET parsedUrl == ParseUrl(url)
    IN  IF parsedUrl.scheme \notin ALLOWED_PROTOCOLS THEN Invalid
        ELSE IF parsedUrl.host \notin ALLOWED_REGISTRY_HOSTS THEN Invalid
        ELSE IF /\ parsedUrl.host \in HTTPS_REQUIRED_HOSTS
                /\ parsedUrl.scheme # "https:"
        THEN Invalid
        ELSE IF parsedUrl.port # "" /\ parsedUrl.port \notin allowedPorts
        THEN Invalid
        ELSE IF /\ parsedUrl.path # <<>>
                /\ parsedUrl.path[1] \in forbiddenPaths
        THEN Invalid
        ELSE IF parsedUrl.query = "v=<" THEN Invalid
        ELSE Valid(parsedUrl)

\* getRegistryUrl(path)
GetRegistryUrl(path) ==
    IF IsUrl(path)
    THEN LET v == ValidateRegistryUrl(path)
         IN  IF ~v.ok THEN Invalid
             ELSE IF /\ Len(v.url.path) >= 3
                     /\ SubSeq(v.url.path, 1, 2) = <<"chat", "b">>
                     /\ v.url.path[Len(v.url.path)] # "json"
             THEN Valid([v.url EXCEPT !.path = @ \o <<"json">>])
             ELSE Valid(v.url)
    ELSE IF \E i \in 1..Len(path.segments) : path.segments[i] = ".."
    THEN Invalid
    ELSE ValidateRegistryUrl(
             [REGISTRY_URL EXCEPT !.path = @ \o path.segments])

\* What the server answers to the first request.
Answers == {"ok", "notFound", "redirect"}

\* What the server answers, told apart by status.
StatusAnswers ==
    {"ok", "unauthorized", "forbidden", "notFound", "serverError",
     "redirect"}

\* The paths the add flow asks for: the index, a style's index and an item
\* given by its URL.
StatusPaths ==
    {[kind |-> "path", segments |-> <<"index.json">>],
     [kind |-> "path", segments |-> <<"styles", "index.json">>],
     [REGISTRY_URL EXCEPT !.path = <<"r", "index.json">>]}

\* response.status of the response fetch resolves with; a redirect is
\* followed to its target, which answers 200
Status(answer) ==
    CASE answer = "unauthorized" -> 401
      [] answer = "forbidden" -> 403
      [] answer = "notFound" -> 404
      [] answer = "serverError" -> 500
      [] OTHER -> 200

\* response.ok
Ok(status) == status \in 200..299

NoError == [text |-> "none", status |-> 0]

ErrorOf(text, status) == [text |-> text, status |-> status]

\* The status is left out of the message.
ValidateHttpResponseNoStatus(status) ==
    IF ~Ok(status) THEN ErrorOf("HTTP error", 0) ELSE NoError

\* validateHttpResponse(response): `HTTP error: ${response.status} ...`
\* for a response that is not ok (content type and length are right)
ValidateHttpResponse(status) ==
    IF ~Ok(status) THEN ErrorOf("HTTP error", status) ELSE NoError

\* What the body of fetchPromise throws for the response:
\* validateHttpResponse first, then the if (!response.ok) block
ResponseError(status) ==
    LET v == ValidateHttpResponse(status)
    IN  IF v # NoError THEN v
        ELSE IF ~Ok(status)
        THEN CASE status = 401 -> ErrorOf("You are not authorized", 0)
               [] status = 404 -> ErrorOf("was not found", 0)
               [] status = 403 -> ErrorOf("You do not have access", 0)
               [] OTHER -> ErrorOf("Failed to fetch", 0)
        ELSE NoError

Fulfilled == [state |-> "fulfilled", error |-> NoError]

Rejected(error) == [state |-> "rejected", error |-> error]

\* Where a redirecting answer points.
Locations ==
    {[kind |-> "url", scheme |-> "http:", host |-> "evil.example",
      port |-> "22", path |-> <<"admin", "x.json">>, query |-> ""],
     [REGISTRY_URL EXCEPT !.path = <<"r", "index.json">>]}

CachePut(cache, url, promise) ==
    [u \in DOMAIN cache \cup {url} |->
        IF u = url THEN promise ELSE cache[u]]

NoFetch == [path |-> "none"]

\* One path of fetchRegistry(paths, options): the promise the path maps to
\* (Fulfilled or Rejected), the requests sent for it and the cache after
FetchOne(path, useCache, cache, answer, location) ==
    LET r == GetRegistryUrl(path)
    IN  IF ~r.ok
        THEN [promise |-> Rejected(ErrorOf("Invalid registry URL", 0)),
              sent |-> <<>>, cache |-> cache, fromCache |-> FALSE]
        ELSE IF useCache /\ r.url \in DOMAIN cache
        THEN [promise |-> cache[r.url], sent |-> <<>>, cache |-> cache,
              fromCache |-> TRUE]
        ELSE
          LET v == ValidateRegistryUrl(r.url)
              e == ResponseError(Status(answer))
              promise == IF ~v.ok
                         THEN Rejected(ErrorOf("Invalid registry URL", 0))
                         ELSE IF e # NoError THEN Rejected(e)
                         ELSE Fulfilled
              sent == IF ~v.ok THEN <<>>
                      ELSE IF answer = "redirect" /\ MaxRedirects > 0
                      THEN <<v.url, location>>
                      ELSE <<v.url>>
          IN  [promise |-> promise, sent |-> sent,
               cache |-> IF useCache THEN CachePut(cache, r.url, promise)
                         ELSE cache,
               fromCache |-> FALSE]

NetIdle ==
    /\ registryCache = <<>>
    /\ fetches = 0
    /\ fetchCall = NoFetch

NetInit == NetIdle

Fetched(caller, path, useCache, answer, location) ==
    LET f == FetchOne(path, useCache, registryCache, answer, location)
    IN  /\ fetchCall = NoFetch
        /\ fetches < MaxFetches
        /\ fetches' = fetches + 1
        /\ registryCache' = f.cache
        /\ fetchCall' = [caller |-> caller, path |-> path,
                         useCache |-> useCache, promise |-> f.promise,
                         answer |-> answer,
                         sent |-> f.sent, fromCache |-> f.fromCache,
                         cacheBefore |-> registryCache]

\* fetchRegistry(paths) with the default options, as the resolver, the
\* index and item getters and addComponents call it
FetchRegistry ==
    /\ \E path \in FetchPaths, answer \in Answers, location \in Locations :
          Fetched("fetchRegistry", path, TRUE, answer, location)
    /\ UNCHANGED <<baseVars, toolVars, mergeVars>>

\* fetchRegistry(paths, options) answered with any status
FetchRegistryStatus ==
    /\ \E path \in StatusPaths, useCache \in BOOLEAN,
          answer \in StatusAnswers, location \in Locations :
          Fetched("fetchRegistry", path, useCache, answer, location)
    /\ UNCHANGED <<baseVars, toolVars, mergeVars>>

\* The index fetch is made with the default options.
GetRegistryDefaultOptions == [useCache |-> TRUE]

\* { useCache: false } of getRegistry
GetRegistryOptions == [useCache |-> FALSE]

\* getRegistry(registryUrl): fetchRegistry([`${registryUrl}/index.json`],
\* { useCache: false }), registryUrl being REGISTRY_URL
GetRegistryFetch ==
    /\ \E answer \in Answers, location \in Locations :
          Fetched("getRegistry",
                  [REGISTRY_URL EXCEPT !.path = @ \o <<"index.json">>],
                  GetRegistryOptions.useCache, answer, location)
    /\ UNCHANGED <<baseVars, toolVars, mergeVars>>

\* clearRegistryCache()
ClearRegistryCache ==
    /\ fetchCall = NoFetch
    /\ registryCache # <<>>
    /\ registryCache' = <<>>
    /\ UNCHANGED <<fetches, fetchCall>>
    /\ UNCHANGED <<baseVars, toolVars, mergeVars>>

\* The caller has been given the results of the call.
FetchReturn ==
    /\ fetchCall # NoFetch
    /\ fetchCall' = NoFetch
    /\ UNCHANGED <<registryCache, fetches>>
    /\ UNCHANGED <<baseVars, toolVars, mergeVars>>

NetNext ==
    FetchRegistry \/ GetRegistryFetch \/ ClearRegistryCache \/ FetchReturn

(***************************************************************************)
(* Tree merge: the tailwind / cssVars / css fields of the resolved tree    *)
(***************************************************************************)

\* Longest payload whose tree-valued fields are merged.
MaxMerged == 2

TreeKeys == {"theme", "plugins"}

NestedKeys == {"extend"}

Scalars == {"a", "b"}

Leaf(v) == [kind |-> "leaf", v |-> v]

Array(items) == [kind |-> "array", items |-> items]

Object(fields) == [kind |-> "object", fields |-> fields]

\* Functions from a subset of the keys to the values.
Partial(keys, values) == UNION {[d -> values] : d \in SUBSET keys}

FlatValues ==
    {Leaf(v) : v \in Scalars} \cup {Array(<<v>>) : v \in Scalars}

NestedValues ==
    FlatValues \cup {Object(f) : f \in Partial(NestedKeys, FlatValues)}

\* item.tailwind ?? {} (item.cssVars ?? {}, item.css ?? {}) of one item
ItemTrees == {Object(f) : f \in Partial(TreeKeys, NestedValues)}

\* options.isMergeableObject(value): a non-null object or array
IsMergeableObject(value) == value.kind \in {"object", "array"}

\* defaultArrayMerge with the source's array only
ArrayReplace(target, source) == source

\* defaultArrayMerge(target, source): target.concat(source)
ArrayMerge(target, source) == Array(target.items \o source.items)

\* deepmerge(target, source) with no options, as registryResolveItemsTree
\* calls it; mergeObject is the branch for two non-arrays
RECURSIVE Deepmerge(_, _)
Deepmerge(target, source) ==
    IF (source.kind = "array") # (target.kind = "array") THEN source
    ELSE IF source.kind = "array" THEN ArrayMerge(target, source)
    ELSE
      LET kept == IF IsMergeableObject(target) THEN target.fields ELSE <<>>
      IN  Object([key \in DOMAIN kept \cup DOMAIN source.fields |->
              IF key \notin DOMAIN source.fields THEN kept[key]
              ELSE IF /\ key \in DOMAIN kept
                      /\ IsMergeableObject(source.fields[key])
              THEN Deepmerge(kept[key], source.fields[key])
              ELSE source.fields[key]])

\* The item's tree is the target and the accumulated tree the source.
MergeStepSwapped(acc, item) == Deepmerge(item, acc)

\* tailwind = deepmerge(tailwind, item.tailwind ?? {})
MergeStep(acc, item) == Deepmerge(acc, item)

\* let tailwind = {}; payload.forEach((item) => { ... })
RECURSIVE MergeAll(_)
MergeAll(list) ==
    IF list = <<>> THEN Object(<<>>)
    ELSE MergeStep(MergeAll(SubSeq(list, 1, Len(list) - 1)), list[Len(list)])

NotMerged == [kind |-> "none"]

MergeIdle ==
    /\ mPayload = <<>>
    /\ tailwind = NotMerged

MergeInit ==
    /\ mPayload \in SeqsUpTo(ItemTrees, MaxMerged) \ {<<>>}
    /\ tailwind = NotMerged

\* The merge of the tree-valued field over the sorted payload
MergeTrees ==
    /\ tailwind = NotMerged
    /\ mPayload # <<>>
    /\ tailwind' = MergeAll(mPayload)
    /\ UNCHANGED mPayload
    /\ UNCHANGED <<baseVars, toolVars, netVars>>

MergeNext == MergeTrees

(***************************************************************************)
(* Catalog client: concurrent callers of fetchRegistry and the cache       *)
(***************************************************************************)

\* Path callbacks of fetchRegistry started in one run.
MaxFlights == 3

\* Calls of clearRegistryCache() in one run.
MaxClears == 1

\* The promise is not put in the cache when it is created.
CacheAfterAwait(cache, useCache, url, handle) == cache

\* if (options.useCache) { registryCache.set(url, fetchPromise) }, run
\* in the same synchronous stretch as the registryCache.has(url) check
CacheBeforeAwait(cache, useCache, url, handle) ==
    IF useCache THEN CachePut(cache, url, handle) ELSE cache

FlightIdle ==
    /\ promises = <<>>
    /\ awaiting = <<>>
    /\ clears = 0

FlightInit == FlightIdle

FlightOthersUnchanged ==
    UNCHANGED <<rateVars, resVars, addVars, pathVars, toolVars, mergeVars,
                wsVars, fetches, fetchCall>>

\* The callback of paths.map for one path, up to its first await: the cache
\* is looked up, and on a miss fetchPromise is created (fetch is called,
\* the request is dispatched), stored and returned still pending.
\* registryCache holds each promise by its position in promises.
FlightCall(path, useCache) ==
    LET url == GetRegistryUrl(path).url
        hit == useCache /\ url \in DOMAIN registryCache
        handle == IF hit THEN registryCache[url] ELSE Len(promises) + 1
    IN  /\ Len(awaiting) < MaxFlights
        /\ GetRegistryUrl(path).ok
        /\ ValidateRegistryUrl(url).ok
        /\ promises' = IF hit THEN promises
                       ELSE Append(promises, [url |-> url, state |-> "pending",
                                              error |-> NoError])
        /\ registryCache' = IF hit THEN registryCache
                            ELSE CacheBeforeAwait(registryCache, useCache,
                                                  url, handle)
        /\ awaiting' = Append(awaiting, [url |-> url, useCache |-> useCache,
                                         promise |-> handle, epoch |-> clears,
                                         dispatched |-> ~hit,
                                         received |-> "nothing"])
        /\ UNCHANGED clears
        /\ FlightOthersUnchanged

\* await fetch(...) resolves with the server's answer and the body of
\* fetchPromise runs to its end: the promise is fulfilled or rejected.
FlightSettle(i, answer) ==
    LET e == ResponseError(Status(answer))
    IN  /\ i \in 1..Len(promises)
        /\ promises[i].state = "pending"
        /\ promises' = [promises EXCEPT ![i] =
                           IF e # NoError
                           THEN [@ EXCEPT !.state = "rejected", !.error = e]
                           ELSE [@ EXCEPT !.state = "fulfilled"]]
        /\ UNCHANGED <<registryCache, awaiting, clears>>
        /\ FlightOthersUnchanged

\* A caller's await of the promise it was handed ends.
FlightReceive(c) ==
    /\ c \in 1..Len(awaiting)
    /\ awaiting[c].received = "nothing"
    /\ promises[awaiting[c].promise].state # "pending"
    /\ awaiting' = [awaiting EXCEPT ![c].received =
                       promises[awaiting[c].promise].state]
    /\ UNCHANGED <<registryCache, promises, clears>>
    /\ FlightOthersUnchanged

\* clearRegistryCache(), at any moment between the steps of the callers
FlightClear ==
    /\ clears < MaxClears
    /\ registryCache # <<>>
    /\ registryCache' = <<>>
    /\ clears' = clears + 1
    /\ UNCHANGED <<promises, awaiting>>
    /\ FlightOthersUnchanged

FlightNext ==
    \/ \E path \in StatusPaths, useCache \in BOOLEAN :
          FlightCall(path, useCache)
    \/ \E i \in 1..MaxFlights, answer \in Answers : FlightSettle(i, answer)
    \/ \E c \in 1..MaxFlights : FlightReceive(c)
    \/ FlightClear

(***************************************************************************)
(* Workspace variant of addComponents: one pass of the loop body per item  *)
(***************************************************************************)

MaxItems == 2

WsNames == {"button", "utils", "slate"}

WsTypes == {"registry:ui", "registry:lib", "registry:theme"}

WsRange(seq) == {seq[i] : i \in 1..Len(seq)}

\* A registry item of the payload: its name, its type, the items it depends
\* on, and whether it carries tailwind.config, cssVars and css.
WsItems ==
    {[name |-> n, type |-> t, registryDependencies |-> d,
      tailwind |-> st, cssVars |-> st, css |-> st] :
        n \in WsNames, t \in WsTypes,
        d \in {<<>>} \cup {<<x>> : x \in WsNames}, st \in BOOLEAN}

\* fetchRegistry(registryItems) answers one item per resolved name.
WsPayloads ==
    {p \in UNION {[1..k -> WsItems] : k \in 0..MaxItems} :
        \A i, j \in 1..Len(p) : i # j => p[i].name # p[j].name}

\* getRegistryTypeAliasMap().get(type); "" stands for undefined.
GetRegistryTypeAlias(type) ==
    CASE type = "registry:ui" -> "ui"
      [] type = "registry:lib" -> "lib"
      [] type = "registry:hook" -> "hooks"
      [] type = "registry:block" -> "components"
      [] type = "registry:component" -> "components"
      [] OTHER -> ""

NoParent == [name |-> "", type |-> ""]

\* getRegistryParentMap(payload).get(name): map.set(dependency, item) in
\* payload order, so the last item that lists the name is its parent.
GetRegistryParent(p, name) ==
    LET ps == {i \in 1..Len(p) : name \in WsRange(p[i].registryDependencies)}
    IN  IF ps = {} THEN NoParent
        ELSE LET last == CHOOSE i \in ps : \A j \in ps : j <= i
             IN  [name |-> p[last].name, type |-> p[last].type]

\* let targetConfig = component.type === "registry:ui" ||
\*   registryParent?.type === "registry:ui" ? workspaceConfig.ui : config
TargetConfig(p, component) ==
    IF \/ component.type = "registry:ui"
       \/ GetRegistryParent(p, component.name).type = "registry:ui"
    THEN "workspaceConfig.ui"
    ELSE "config"

WsSteps == <<"updateTailwindConfig", "updateCssVars", "updateCss",
             "updateDependencies", "updateFiles">>

WsCurrent == wsPayload[wsComponent]

WsInLoop == wsPc = "loop" /\ wsComponent <= Len(wsPayload)

WsIdle ==
    /\ wsPc = "done"
    /\ wsPayload = <<>>
    /\ wsComponent = 1
    /\ wsStep = 1
    /\ wsLog = <<>>

WsInit ==
    /\ wsPc = "loop"
    /\ wsPayload \in WsPayloads
    /\ wsComponent = 1
    /\ wsStep = 1
    /\ wsLog = <<>>

WsOthersUnchanged ==
    UNCHANGED <<rateVars, resVars, addVars, pathVars, toolVars, netVars,
                mergeVars, flightVars>>

\* One numbered step of the loop body: the update runs when the component
\* carries what it applies (steps 4 and 5 always run), and is awaited.
WsRun(k, present) ==
    /\ WsInLoop
    /\ GetRegistryTypeAlias(WsCurrent.type) # ""
    /\ wsLog' = IF present
                THEN Append(wsLog, [component |-> WsCurrent.name,
                                    step |-> WsSteps[k],
                                    root |-> TargetConfig(wsPayload, WsCurrent)])
                ELSE wsLog
    /\ IF k < 5
       THEN wsStep' = k + 1 /\ UNCHANGED wsComponent
       ELSE wsStep' = 1 /\ wsComponent' = wsComponent + 1
    /\ UNCHANGED <<wsPc, wsPayload>>
    /\ WsOthersUnchanged

\* if (!alias) { continue }
WsContinue ==
    /\ WsInLoop
    /\ GetRegistryTypeAlias(WsCurrent.type) = ""
    /\ wsComponent' = wsComponent + 1
    /\ UNCHANGED <<wsPc, wsPayload, wsStep, wsLog>>
    /\ WsOthersUnchanged

\* 1. Update tailwind config.
WsUpdateTailwindConfig ==
    /\ wsStep = 1
    /\ WsRun(1, WsCurrent.tailwind)

\* 2. Update css vars.
WsUpdateCssVars ==
    /\ wsStep = 2
    /\ WsRun(2, WsCurrent.cssVars)

\* 3. Update CSS
WsUpdateCss ==
    /\ wsStep = 3
    /\ WsRun(3, WsCurrent.css)

\* 4. Update dependencies.
WsUpdateDependencies ==
    /\ wsStep = 4
    /\ WsRun(4, TRUE)

\* 5. Update files.
WsUpdateFiles ==
    /\ wsStep = 5
    /\ WsRun(5, TRUE)

\* The loop is over: the file lists are sorted and reported.
WsReturn ==
    /\ wsPc = "loop"
    /\ wsComponent > Len(wsPayload)
    /\ wsPc' = "done"
    /\ UNCHANGED <<wsPayload, wsComponent, wsStep, wsLog>>
    /\ WsOthersUnchanged

WsNext ==
    \/ WsContinue
    \/ WsUpdateTailwindConfig
    \/ WsUpdateCssVars
    \/ WsUpdateCss
    \/ WsUpdateDependencies
    \/ WsUpdateFiles
    \/ WsReturn

(***************************************************************************)
(* Specifications                                                          *)
(***************************************************************************)

\* Every subsystem added after the path guard is idle.
MoreIdle == WsIdle /\ FlightIdle

LaterIdle == ToolsIdle /\ NetIdle /\ MergeIdle /\ MoreIdle

InitRate == RateInit /\ ResolveIdle /\ AddIdle /\ PathIdle /\ LaterIdle

NextRate == RateNext

SpecRate == InitRate /\ [][NextRate]_vars

InitResolve == ResolveInit /\ RateInit /\ AddIdle /\ PathIdle /\ LaterIdle

NextResolve == ResolveNext

SpecResolve == InitResolve /\ [][NextResolve]_vars

\* The sort of registryResolveItemsTree on its own: payload is any list of
\* items the catalog can have served, about to be sorted.
InitSort ==
    /\ RateInit
    /\ LaterIdle
    /\ AddIdle
    /\ PathIdle
    /\ rPc = "sort"
    /\ payload \in SortInputs
    /\ names = <<>>
    /\ baseColor = "unread"
    /\ world = [r \in Refs |-> Unknown]
    /\ allDependencies = <<>>
    /\ direct = <<>>
    /\ stack = <<>>
    /\ visited = {}
    /\ allRegistryNames = <<>>
    /\ uniqueRegistryNames = <<>>
    /\ registryItems = <<>>
    /\ pending = <<>>
    /\ beforeSort = <<>>
    /\ rResult = "none"

NextSort == SortAndMerge

SpecSort == InitSort /\ [][NextSort]_vars

InitAdd == AddInit /\ RateInit /\ ResolveIdle /\ PathIdle /\ LaterIdle

NextAdd == AddNext

SpecAdd == InitAdd /\ [][NextAdd]_vars

InitPath == PathInit /\ RateInit /\ ResolveIdle /\ AddIdle /\ LaterIdle

NextPath == PathNext

SpecPath == InitPath /\ [][NextPath]_vars

BaseIdle == RateInit /\ ResolveIdle /\ AddIdle /\ PathIdle /\ MoreIdle

InitTools == ToolsInit /\ BaseIdle /\ NetIdle /\ MergeIdle

NextTools == ToolsNext

SpecTools == InitTools /\ [][NextTools]_vars

InitNet == NetInit /\ BaseIdle /\ ToolsIdle /\ MergeIdle

NextNet == NetNext

SpecNet == InitNet /\ [][NextNet]_vars

InitStatus == BaseIdle /\ ToolsIdle /\ NetInit /\ MergeIdle

NextStatus == FetchRegistryStatus \/ ClearRegistryCache \/ FetchReturn

SpecStatus == InitStatus /\ [][NextStatus]_vars

InitMerge == MergeInit /\ BaseIdle /\ ToolsIdle /\ NetIdle

NextMerge == MergeNext

SpecMerge == InitMerge /\ [][NextMerge]_vars

InitWorkspace ==
    /\ WsInit
    /\ RateInit /\ ResolveIdle /\ AddIdle /\ PathIdle
    /\ ToolsIdle /\ NetIdle /\ MergeIdle /\ FlightIdle

InitFlight ==
    /\ FlightInit
    /\ RateInit /\ ResolveIdle /\ AddIdle /\ PathIdle
    /\ ToolsIdle /\ NetIdle /\ MergeIdle /\ WsIdle

NextFlight == FlightNext

SpecFlight == InitFlight /\ [][NextFlight]_vars

NextWorkspace == WsNext

SpecWorkspace == InitWorkspace /\ [][NextWorkspace]_vars

(***************************************************************************)
(* Properties of the dependency resolver                                   *)
(***************************************************************************)

SumOver(S, Op(_)) ==
    LET RECURSIVE Total(_)
        Total(T) == IF T = {} THEN 0
                    ELSE LET x == CHOOSE y \in T : TRUE
                         IN  Op(x) + Total(T \ {x})
    IN  Total(S)

\* What one call tree of resolveDependenciesRecursively has left to do: the
\* references not visited yet (each can open one nested call over at most
\* MaxEdges dependencies), the dependencies the open calls have not looked
\* at, and the open calls themselves.
UnvisitedWeight == MaxEdges + 1

RecursionLeft ==
    IF stack = <<>> THEN 0
    ELSE LET left(k) == Len(stack[k].deps) + 1 - stack[k].i
         IN  1 + Cardinality(Refs \ visited) * UnvisitedWeight
               + SumOver(1..Len(stack), left) + Len(stack)

RecursionMost ==
    1 + Cardinality(Refs) * UnvisitedWeight + 2 * MaxEdges + MaxDepth

ItemsLeft ==
    Len(pending) * (RecursionMost + 2)
        + (IF stack = <<>> THEN RecursionMost + 1 ELSE RecursionLeft)

ItemsMost == (Cardinality(NameRefs) + 1) * (RecursionMost + 2) + RecursionMost + 1

\* A measure of the work registryResolveItemsTree has left.
Rank ==
    CASE rPc = "done" -> 0
      [] rPc = "sort" -> 1
      [] rPc = "theme" -> 2
      [] rPc = "check" -> 3
      [] rPc = "items" -> 4 + ItemsLeft
      [] rPc = "index" -> 5 + ItemsMost
      [] rPc = "deps" -> 6 + ItemsMost + RecursionLeft
      [] rPc = "direct" -> 7 + ItemsMost + RecursionMost + Len(direct)
      [] OTHER -> 8 + ItemsMost + RecursionMost + MaxNames

HasDuplicateName(list) ==
    \E i, j \in 1..Len(list) : i < j /\ list[i].name = list[j].name

ThemesFirst(list) ==
    \A i, j \in 1..Len(list) :
        (i < j /\ list[j].type = "registry:theme") => list[i].type = "registry:theme"

Requested(ref) == Includes(names, ref)

\* C2: dependency resolution terminates for every catalog of the model,
\* cyclic ones included: every step of registryResolveItemsTree and of the
\* nested resolveDependenciesRecursively calls lowers a measure that is
\* never negative (every fetch returns or fails, so a step is always taken),
\* and the nesting of the calls never outgrows MaxDepth.
C2_ResolutionTerminates ==
    /\ [][Rank' < Rank]_vars
    /\ [](Rank >= 0)
    /\ [](rPc # "diverged")

\* C2 witness: a resolution that returned a tree over a catalog in which two
\* documents depend on each other.
C2_Witness ==
    /\ rPc = "done"
    /\ rResult = "tree"
    /\ \E a, b \in Refs :
        /\ a # b
        /\ Includes(world[a].deps, b)
        /\ Includes(world[b].deps, a)

\* C3: the item list the merged tree is built from never holds two items
\* of the same name.
C3_NoDuplicateNames ==
    (rPc = "done" /\ rResult = "tree") => ~HasDuplicateName(payload)

\* C7: when the fetch of a directly requested file or URL fails while
\* another requested reference resolves, a tree is returned that holds a
\* placeholder for the failed reference; and no tree is returned only when
\* the item list is empty.
C7_PlaceholderForFailedFetch ==
    rPc = "done" =>
        /\ \A ref \in UrlRefs \cup FileRefs :
            (/\ Requested(ref)
             /\ world[ref].outcome = "fail"
             /\ \E other \in Refs \ {ref} :
                    Requested(other) /\ world[other].outcome = "ok")
                => (rResult = "tree" /\ Includes(payload, Placeholder(ref)))
        /\ (rResult # "tree" => payload = <<>>)

\* C9: in the list the merge runs over, every item of type registry:theme
\* comes before every item of another type.
C9_ThemesFirst ==
    (rPc = "done" /\ rResult = "tree") => ThemesFirst(payload)

\* C9 witness: a sorted list of at least two themes and a non-theme whose
\* input had a theme behind a non-theme.
C9_Witness ==
    /\ rPc = "done"
    /\ ~ThemesFirst(beforeSort)
    /\ Len(payload) >= 3
    /\ payload[2].type = "registry:theme"
    /\ payload[Len(payload)].type # "registry:theme"

(***************************************************************************)
(* Properties of the rate limiter                                          *)
(***************************************************************************)

\* A step in which one more invocation of tool t has arrived.
ArrivalOf(t) == Arrived(t)' = Arrived(t) + 1

\* C1: at every moment at most MAX_CONCURRENT_OPERATIONS admitted invocations
\* of the rate-limited tools (execute_init, execute_add) are unfinished; an
\* invocation arriving while that many are in flight is rejected in the same
\* step, and a rejected invocation is never admitted later (the count of
\* rejected invocations never goes down in favour of the running ones).
C1_CeilingEnforced ==
    /\ [](LimitedInFlight <= MAX_CONCURRENT_OPERATIONS)
    /\ [][\A t \in RateLimitedTools :
            (ArrivalOf(t) /\ LimitedInFlight = MAX_CONCURRENT_OPERATIONS)
                => (rejected'[t] = rejected[t] + 1 /\ inFlight' = inFlight)]_vars
    /\ [][\A t \in Tools : rejected'[t] >= rejected[t]]_vars

\* C1 witness: the ceiling is reached and a further execute_add was rejected.
C1_Witness ==
    /\ LimitedInFlight = MAX_CONCURRENT_OPERATIONS
    /\ inFlight["execute_init"] > 0
    /\ inFlight["execute_add"] > 0
    /\ rejected["execute_add"] > 0

\* C10: an invocation of a rate-limited tool is rejected if and only if
\* MAX_CONCURRENT_OPERATIONS admitted invocations are in flight when it
\* arrives; when six execute_add calls have arrived and none has completed,
\* exactly one was rejected and the other five are running.
C10_RejectedIffFull ==
    /\ [][\A t \in RateLimitedTools :
            ArrivalOf(t) =>
                ((rejected'[t] = rejected[t] + 1)
                    <=> (LimitedInFlight = MAX_CONCURRENT_OPERATIONS))]_vars
    /\ []((/\ Arrived("execute_add") = MAX_CONCURRENT_OPERATIONS + 1
           /\ TotalArrived = MAX_CONCURRENT_OPERATIONS + 1
           /\ Sum3(completed) = 0)
            => (/\ rejected["execute_add"] = 1
                /\ inFlight["execute_add"] = MAX_CONCURRENT_OPERATIONS))

\* C10 witness: six execute_add calls have arrived, none has completed.
C10_Witness ==
    /\ Arrived("execute_add") = MAX_CONCURRENT_OPERATIONS + 1
    /\ TotalArrived = MAX_CONCURRENT_OPERATIONS + 1
    /\ Sum3(completed) = 0

(***************************************************************************)
(* Properties of the project mutation pipeline                             *)
(***************************************************************************)

StepsInOrder ==
    \A i \in 1..Len(Steps) :
        Steps[i] \in started => \A j \in 1..(i - 1) : Steps[j] \in finished

WritesTarget == \E p \in TargetPaths : disk'[p] # disk[p]

\* C4: within one invocation of addProjectComponents an updater is called
\* only when every updater before it in the order tailwind config, css
\* variables, css, dependencies, files has completed, and no target file
\* changes on disk before updateDependencies has completed.
C4_StepsStrictlySequential ==
    /\ []StepsInOrder
    /\ [][WritesTarget => "updateDependencies" \in finished]_vars

C4_Witness ==
    /\ aPc = "done"
    /\ finished = StepSet
    /\ tree.tailwind /\ tree.cssVars /\ tree.css /\ tree.dependencies
    /\ manifest
    /\ \E p \in TargetPaths : diskAtWrite[p] = "absent" /\ disk[p] = "new"

Count(list, x) == Cardinality({i \in 1..Len(list) : list[i] = x})

\* C5: once updateFiles has completed, every target path of tree.files has
\* exactly one record; it is skipped (and its content unchanged) iff the
\* path existed and the invocation did not ask to overwrite, created iff
\* the path did not exist, and updated iff it existed and overwrite was
\* asked for.
C5_OneRecordPerPath ==
    "updateFiles" \in finished =>
        LET ret == returned["updateFiles"]
        IN  \A i \in 1..Len(tree.files) :
                LET p == tree.files[i]
                    existed == diskAtWrite[p] # "absent"
                IN  /\ Count(ret.filesCreated, p) + Count(ret.filesUpdated, p)
                           + Count(ret.filesSkipped, p) = 1
                    /\ Includes(ret.filesSkipped, p)
                           <=> (existed /\ ~options.overwrite)
                    /\ Includes(ret.filesCreated, p) <=> ~existed
                    /\ Includes(ret.filesUpdated, p)
                           <=> (existed /\ options.overwrite)
                    /\ Includes(ret.filesSkipped, p) => disk[p] = diskAtWrite[p]
                    /\ ~Includes(ret.filesSkipped, p) => disk[p] = "new"

C5_Witness ==
    /\ "updateFiles" \in finished
    /\ options.overwrite
    /\ Len(returned["updateFiles"].filesUpdated) = 1
    /\ Len(returned["updateFiles"].filesCreated) = 1

\* C6: when the same request is added twice in succession with
\* overwrite=false, the second result has no modified and no created file,
\* and every file the first invocation created is skipped and unchanged.
C6_SecondAddChangesNothing ==
    (/\ aPc = "done"
     /\ Len(results) = 2
     /\ \A i \in 1..2 : results[i].outcome = "ok" /\ ~results[i].overwrite)
    => /\ results[2].filesModified = <<>>
       /\ results[2].filesCreated = <<>>
       /\ \A i \in 1..Len(results[1].filesCreated) :
              LET p == results[1].filesCreated[i]
              IN  /\ Includes(returned["updateFiles"].filesSkipped, p)
                  /\ disk[p] = diskAtWrite[p]

(***************************************************************************)
(* Properties of the workspace path guard                                  *)
(***************************************************************************)

InsideWorkspace(p) ==
    p = WorkspaceDir \/ StartsWith(p, WorkspaceDir \o <<"/">>)

Traversal(p) ==
    \/ Contains(p, <<".", ".">>)
    \/ Contains(p, <<NUL>>)
    \/ ~InsideWorkspace(PathResolve(WorkspaceDir, p))

\* C8: none of validateWorkspacePath, getSafeWorkspaceCwd and
\* validateWorkingDirectory accepts an input that contains "..", contains
\* a null byte or resolves outside the workspace.
C8_GuardRejectsTraversal ==
    (pPc = "done" /\ pResult.outcome = "returned" /\ pResult.source = "input")
        => ~Traversal(inputPath)

\* The same of validateWorkspacePath alone.
FilePathGuardRejectsTraversal ==
    (pPc = "done" /\ pResult.fn = "validateWorkspacePath"
        /\ pResult.outcome = "returned")
        => (~Traversal(inputPath) /\ InsideWorkspace(pResult.value))

(***************************************************************************)
(* Properties of the tool boundary                                         *)
(***************************************************************************)

InLog(e) == \E i \in 1..Len(effects) : effects[i] = e

\* The last invocation was of one of the tools, with arguments of the
\* right shape and a working directory that could be determined.
WellFormed(tools) ==
    /\ request.tool \in tools
    /\ request.shapeOk
    /\ GetSafeWorkspaceCwd(request.cwd, request.workspaceExists,
                           request.envDir).outcome = "returned"

Untouched ==
    /\ projectDir = projectDirBefore
    /\ ~InLog("writeConfig") /\ ~InLog("write") /\ ~InLog("install")
    /\ ~InLog("createProject")

\* C11: whatever fails while a tool invocation is handled comes back as a
\* response with isError: true; no handler lets an exception escape.
C11_NoErrorEscapes ==
    request.tool \in ToolNames => response.kind # "threw"

\* C12 as stated: the process exits only in the SIGINT / SIGTERM handlers.
C12_ExitOnlyOnSignal ==
    proc = "exited" => exitCause \in {"SIGINT", "SIGTERM"}

\* C12: no outcome of an invocation ends the process (handleError without
\* main throws); the process exits only in the SIGINT / SIGTERM handlers
\* or, before any request has been served, in main().catch when the
\* startup fails.
C12_NoOutcomeExits ==
    /\ response.kind # "exit"
    /\ proc = "exited" => exitCause \in {"SIGINT", "SIGTERM", "main.catch"}
    /\ exitCause = "main.catch" => served = 0 /\ request = NoRequest
    /\ (request # NoRequest /\ exitCause = "none") => proc = "ready"

C12_Witness ==
    /\ proc = "ready"
    /\ served >= 2
    /\ request.tool = "get_item"
    /\ response = [kind |-> "threw", message |-> "fetch failed"]

\* C13: execute_init (well-formed, working directory known) on a directory
\* that has a package.json and a components.json, force not set, answers
\* with the "components.json already exists" failure and has written
\* nothing: components.json, the component files and the installed
\* packages are as before.
C13_ExistingConfigBlocksInit ==
    (/\ WellFormed({"execute_init"})
     /\ projectDirBefore.pkg
     /\ projectDirBefore.config # "absent"
     /\ ~request.force)
    => /\ response = [kind |-> "isError", message |-> ConfigExistsMessage]
       /\ Untouched
       /\ effects = <<"preflight">>

C13_Witness ==
    /\ WellFormed({"execute_init"})
    /\ projectDirBefore.pkg
    /\ projectDirBefore.config = "old"
    /\ ~request.force
    /\ request.fetchOk /\ request.frameworkOk /\ request.installOk
    /\ response.message = ConfigExistsMessage
    /\ projectDir.config = "old"

AddEntries == {"add_item", "execute_add", "executeAddCommand"}

NamesDeprecated ==
    \E i \in 1..Len(request.components) :
        request.components[i] \in {"toast", "toaster"}

FailedEarly ==
    /\ response.kind \in {"isError", "threw"}
    /\ Untouched
    /\ ~InLog("preflight") /\ ~InLog("init")

FirstFetchFailed ==
    /\ isUrl(request.components[1]) \/ isLocalFile(request.components[1])
    /\ ~request.fetchOk
    /\ response.message = "fetch failed"

C15_EmptyListFailsBeforeFetch ==
    (/\ WellFormed({"execute_add", "executeAddCommand"})
     /\ request.components = <<>>)
    => /\ response.message \in {EmptyListMessage,
                                 "No components specified to add."}
       /\ ~InLog("fetch")
       /\ Untouched

(***************************************************************************)
(* Properties of the catalog client                                        *)
(***************************************************************************)

\* The policy of spec 6 on a request's target.
PassesPolicy(u) ==
    /\ u.scheme \in {"http:", "https:"}
    /\ u.host \in {"ui.shadcn.com", "localhost", "host.docker.internal",
                   "127.0.0.1"}
    /\ u.port = "" \/ u.port \in {"80", "443", "3000", "3333", "8080", "8443"}
    /\ u.path[1] \notin {"admin", ".env", "config", "system", "private"}
    /\ u.query # "v=<"

\* C16: every HTTP request sent for a fetchRegistry call goes to a URL
\* that passed the validation (scheme, host, port, path, query); when the
\* validation fails no request is sent and the call fails.
C16_EveryRequestValidated ==
    fetchCall # NoFetch =>
        /\ \A i \in 1..Len(fetchCall.sent) : PassesPolicy(fetchCall.sent[i])
        /\ ~GetRegistryUrl(fetchCall.path).ok =>
               fetchCall.sent = <<>> /\ fetchCall.promise.state = "rejected"

\* C17: the index fetch of getRegistry always sends a request, never
\* answers from the cache and leaves the cache as it was; a fetchRegistry
\* call with the default options stores its promise under the resolved
\* URL, and when the URL is already cached it returns the stored promise
\* without sending a request.
C17_CachePolicy ==
    fetchCall # NoFetch =>
        /\ fetchCall.caller = "getRegistry" =>
              /\ fetchCall.sent # <<>>
              /\ ~fetchCall.fromCache
              /\ registryCache = fetchCall.cacheBefore
        /\ (fetchCall.caller = "fetchRegistry"
                /\ GetRegistryUrl(fetchCall.path).ok) =>
              LET url == GetRegistryUrl(fetchCall.path).url
              IN  IF url \in DOMAIN fetchCall.cacheBefore
                  THEN /\ fetchCall.sent = <<>>
                       /\ fetchCall.promise = fetchCall.cacheBefore[url]
                       /\ registryCache = fetchCall.cacheBefore
                  ELSE /\ fetchCall.sent # <<>>
                       /\ url \in DOMAIN registryCache
                       /\ registryCache[url] = fetchCall.promise
                       /\ \A u \in DOMAIN fetchCall.cacheBefore :
                              registryCache[u] = fetchCall.cacheBefore[u]

C17_Witness ==
    /\ fetchCall # NoFetch
    /\ fetchCall.caller = "getRegistry"
    /\ fetchCall.path \in DOMAIN fetchCall.cacheBefore
    /\ fetchCall.sent # <<>>
    /\ registryCache = fetchCall.cacheBefore

(***************************************************************************)
(* Properties of the base-colour theme                                     *)
(***************************************************************************)

\* "index" was asked for, the configuration has a base colour and its
\* document was fetched: the theme item was put at the head of the payload.
ThemePrepended ==
    /\ rPc = "done"
    /\ rResult = "tree"
    /\ Includes(allRegistryNames, "index")
    /\ baseColor = "set"
    /\ beforeSort # <<>>
    /\ beforeSort[1] = ThemeItem

\* C20: when "index" is among the requested names, the configuration
\* declares a base colour and its document is fetched, the resolved list
\* starts with the synthetic registry:theme item named after the base
\* colour, ahead of every other item, other themes included, after the
\* final sort.
C20_BaseColorThemeFirst ==
    ThemePrepended => payload[1] = ThemeItem

(***************************************************************************)
(* Properties of the tree merge                                            *)
(***************************************************************************)

Merged == tailwind # NotMerged

\* The value item i has at the key path, or NotMerged.
At(t, keyPath) ==
    IF keyPath[1] \notin DOMAIN t.fields THEN NotMerged
    ELSE IF Len(keyPath) = 1 THEN t.fields[keyPath[1]]
    ELSE LET v == t.fields[keyPath[1]]
         IN  IF v.kind = "object" /\ keyPath[2] \in DOMAIN v.fields
             THEN v.fields[keyPath[2]]
             ELSE NotMerged

KeyPaths ==
    {<<k>> : k \in TreeKeys} \cup (TreeKeys \X NestedKeys)

Contributors(keyPath) ==
    {i \in 1..Len(mPayload) : At(mPayload[i], keyPath) # NotMerged}

Latest(S) == CHOOSE i \in S : \A j \in S : j <= i

\* No later item puts something that is not an object where the key
\* path's parent is.
ParentKept(keyPath, i) ==
    Len(keyPath) = 2 =>
        \A j \in (i + 1)..Len(mPayload) :
            At(mPayload[j], <<keyPath[1]>>).kind \in {"none", "object"}

C19_ArraysReplaced ==
    Merged =>
      \A keyPath \in KeyPaths :
        LET S == Contributors(keyPath)
        IN  (/\ Cardinality(S) >= 2
             /\ \A i \in S : At(mPayload[i], keyPath).kind = "array"
             /\ ParentKept(keyPath, Latest(S)))
            => At(tailwind, keyPath) = At(mPayload[Latest(S)], keyPath)

(***************************************************************************)
(* Properties of the working directory                                     *)
(***************************************************************************)

\* The choice by priority: /workspace when it exists, else WORKSPACE_DIR
\* when set, else the caller's cwd, else none.
ByPriority(req) ==
    IF req.workspaceExists THEN <<"returned", DefaultCwd>>
    ELSE IF req.envDir # <<>> THEN <<"returned", req.envDir>>
    ELSE IF req.cwd # <<>> THEN <<"returned", req.cwd>>
    ELSE <<"threw", <<>> >>

AnsweredNotOk ==
    /\ fetchCall # NoFetch
    /\ fetchCall.sent # <<>>
    /\ ~Ok(Status(fetchCall.answer))

C23_AllMutatingToolsUnderCeiling ==
    Sum3(inFlight) <= MAX_CONCURRENT_OPERATIONS

(***************************************************************************)
(* Properties of a failing step of the add pipeline                        *)
(***************************************************************************)

\* A step of the running invocation threw.
StepFailed == aPc = "failed" /\ tree # NoTree /\ aStep >= 1

\* What step i, once completed, leaves behind.
EffectOf(i) ==
    CASE i = 1 -> tree.tailwind => disk[TailwindConfigPath] = "new"
      [] i = 2 -> tree.cssVars => disk[TailwindCssPath] = "new"
      [] i = 3 -> tree.css => disk[TailwindCssPath] = "new"
      [] i = 4 -> tree.dependencies => manifest
      [] OTHER -> TRUE

\* C24: when a step of the add pipeline fails there is no rollback: every
\* earlier step of the invocation has completed and what it wrote is still
\* on disk, no later step of the invocation was started, and the caller
\* gets the failure.
C24_NoRollbackOnFailure ==
    StepFailed
    => /\ \A i \in 1..(aStep - 1) :
             Steps[i] \in finished /\ EffectOf(i)
       /\ \A i \in aStep..Len(Steps) : Steps[i] \notin started
       /\ results # <<>>
       /\ results[Len(results)].outcome = "threw"

C24_Witness ==
    /\ StepFailed
    /\ Steps[aStep] = "updateDependencies"
    /\ tree.tailwind
    /\ disk[TailwindConfigPath] = "new"
    /\ results[Len(results)].outcome = "threw"

(***************************************************************************)
(* Properties of initialization in a directory without a package.json      *)
(***************************************************************************)

\* execute_init has run its preflight in a directory that is missing or
\* has no package.json.
InitOfUninitialized ==
    /\ request.tool = "execute_init"
    /\ InLog("preflight")
    /\ ~projectDirBefore.pkg

PreflightSignalMissing ==
    /\ request.tool = "execute_init"
    /\ request.missing # "none"
    /\ request.frameworkOk
    /\ InLog("projectInfo")

\* C26: when the preflight of initialization fails because the style
\* framework is not configured or because no import alias can be resolved,
\* the error the caller gets names the signal that is missing.
C26_PreflightErrorNamesSignal ==
    PreflightSignalMissing
    => /\ response.kind = "isError"
       /\ response.message = request.missing

(***************************************************************************)
(* Properties of one call of resolveDependenciesRecursively                *)
(***************************************************************************)

RECURSIVE NamesOf(_)
\* The registryNames of the nested calls in progress, outermost first.
NamesOf(stk) ==
    IF stk = <<>> THEN <<>>
    ELSE NamesOf(SubSeq(stk, 1, Len(stk) - 1)) \o stk[Len(stk)].names

RECURSIVE ItemsOf(_)
\* The items of the nested calls in progress, outermost first.
ItemsOf(stk) ==
    IF stk = <<>> THEN <<>>
    ELSE ItemsOf(SubSeq(stk, 1, Len(stk) - 1)) \o stk[Len(stk)].items

NoneTwice(list) ==
    \A i, j \in 1..Len(list) : i # j => list[i] # list[j]

\* C27: within one top-level call of resolveDependenciesRecursively, with
\* its one visited set, every dependency is taken up at most once however
\* often it is referred to: the names and the items gathered so far, and so
\* the registryNames the call returns, hold nothing twice, and all of them
\* are in the visited set.
C27_EachDependencyOnce ==
    InRecursion
    => /\ NoneTwice(NamesOf(stack))
       /\ NoneTwice(ItemsOf(stack))
       /\ \A i \in 1..Len(NamesOf(stack)) : NamesOf(stack)[i] \in visited

C27_Witness ==
    /\ rPc = "deps"
    /\ Len(stack) > 1
    /\ HasDep
    /\ IsVisited(CurrentDep, visited)
    /\ \E i \in 1..Len(NamesOf(stack)) : NamesOf(stack)[i] = CurrentDep

(***************************************************************************)
(* Properties of a dependency that cannot be fetched                       *)
(***************************************************************************)

\* ref is a catalog name that a requested, fetched item depends on, and its
\* own fetch is the only one that failed.
TransitiveFailed(ref) ==
    /\ ref \in NameRefs
    /\ ~Requested(ref)
    /\ world[ref].outcome = "fail"
    /\ \A r \in Refs \ {ref} : world[r].outcome \in {"ok", "unknown"}
    /\ \E other \in Refs \ {ref} :
          /\ Requested(other)
          /\ world[other].outcome = "ok"
          /\ Includes(world[other].deps, ref)

\* C28: when a catalog name that a requested item depends on cannot be
\* fetched (every other fetch, that of the catalog's index included,
\* succeeding), the resolution still returns a tree: it holds a placeholder
\* for that name and the item of every requested reference that was fetched.
C28_FailedDependencyTolerated ==
    (rPc = "done" /\ uniqueRegistryNames # <<>>) =>
        \A ref \in NameRefs :
            TransitiveFailed(ref)
            => /\ rResult = "tree"
               /\ Includes(payload, Placeholder(ref))
               /\ \A other \in Refs :
                     (Requested(other) /\ world[other].outcome = "ok")
                     => Includes(payload, Item(other, world[other]))

(***************************************************************************)
(* Properties of the order the final sort keeps                            *)
(***************************************************************************)

IsTheme(item) == item.type = "registry:theme"

IsNoTheme(item) == item.type # "registry:theme"

\* C29: the final sort is stable: it only moves the registry:theme items
\* to the front; the items of other types keep the order they were found
\* in, and so do the theme items among themselves.
C29_SortKeepsDiscoveryOrder ==
    (rPc = "done" /\ rResult = "tree") =>
        /\ SelectSeq(payload, IsNoTheme) = SelectSeq(beforeSort, IsNoTheme)
        /\ SelectSeq(payload, IsTheme) = SelectSeq(beforeSort, IsTheme)

(***************************************************************************)
(* Properties of the configuration file under the add tools                *)
(***************************************************************************)

\* add_item or execute_add has run its preflight.
AddRan ==
    /\ request.tool \in {"add_item", "execute_add"}
    /\ InLog("preflight")

\* An existing components.json is left as it was, and initialization is
\* only run when the preflight reports something missing.
ConfigKept ==
    /\ projectDirBefore.config # "absent"
         => projectDir.config = projectDirBefore.config
    /\ InLog("init") => PreFlightAdd(projectDirBefore) # "none"

Before(e1, e2) ==
    \A i, j \in 1..Len(effects) :
        (effects[i] = e1 /\ effects[j] = e2) => i < j

\* execute_init has run runInit (which it calls with skipPreflight: false).
InitRan == request.tool = "execute_init" /\ InLog("preflight")

\* preFlightInit returned with no entry in errors.
PreflightClean ==
    /\ projectDirBefore.pkg
    /\ ~ConfigBlocks(projectDirBefore.config # "absent", request.force)
    /\ request.frameworkOk
    /\ request.missing = "none"

\* components.json comes after the preflight and before addComponents,
\* and a missing style framework or import alias stops both.
InitInOrder ==
    /\ InLog("writeConfig") => Before("preflight", "writeConfig")
    /\ (InLog("fetch") \/ InLog("install"))
         => (InLog("writeConfig") /\ Before("writeConfig", "fetch")
                                  /\ Before("writeConfig", "install"))
    /\ (projectDirBefore.pkg /\ request.missing # "none")
         => (~InLog("writeConfig") /\ ~InLog("install")
             /\ projectDir = projectDirBefore)

\* C31 as stated: on the initialization path with preflight enabled,
\* components.json is written only after preflight has completed without
\* any error and before the initial style item is applied through
\* addComponents; with a missing style framework configuration or import
\* alias no components.json is written and no component is installed.
C31_ConfigOnlyAfterCleanPreflight ==
    InitRan => (InitInOrder /\ (InLog("writeConfig") => PreflightClean))

\* C31 amended: as above, except that preflight may have reported the
\* project as missing, in which case components.json is written, after
\* the creation of a new project, into that project.
C31_ConfigAfterPreflightOrBootstrap ==
    InitRan
    => /\ InitInOrder
       /\ InLog("writeConfig")
            => \/ PreflightClean
               \/ /\ ~projectDirBefore.pkg
                  /\ InLog("createProject")
                  /\ Before("createProject", "writeConfig")
                  /\ projectDir.config = projectDirBefore.config

C31_Witness ==
    /\ InitRan
    /\ PreflightClean
    /\ response.kind = "ok"
    /\ effects = <<"preflight", "projectInfo", "writeConfig", "fetch",
                   "install", "write">>
    /\ projectDir.config = "new"


(***************************************************************************)
(* Properties of the workspace variant of addComponents                    *)
(***************************************************************************)

WsFileWritten(i) == wsLog[i].step = "updateFiles"

WsApplied(name) == {wsLog[i].root : i \in {j \in 1..Len(wsLog) : wsLog[j].component = name}}

\* C32: in the workspace variant every style-configuration, style-variable
\* and style-sheet update and every dependency installation of the
\* invocation completes before the invocation writes its first component
\* file.
C32_WorkspaceUpdatesBeforeFirstFile ==
    \A i, j \in 1..Len(wsLog) :
        (WsFileWritten(i) /\ ~WsFileWritten(j)) => j < i

\* C33: when the workspace variant returns, every resolved item has been
\* applied to exactly one root: the UI package root for an item of UI kind,
\* the invoking project root for every other item.
C33_EveryItemToItsRoot ==
    wsPc = "done" =>
        \A i \in 1..Len(wsPayload) :
            WsApplied(wsPayload[i].name) =
                {IF wsPayload[i].type = "registry:ui"
                 THEN "workspaceConfig.ui" ELSE "config"}


(***************************************************************************)
(* Properties of the in-flight counter of the rate limiter                 *)
(***************************************************************************)

AdmittedStep(t) == inFlight'[t] = inFlight[t] + 1

CompletedStep(t) == completed'[t] = completed[t] + 1

RejectedStep(t) == rejected'[t] = rejected[t] + 1

\* C34: activeOperations goes up by one exactly when an invocation of a
\* wrapped tool is admitted, down by one exactly when such an invocation
\* completes (resolved or thrown), and stays as it is when one is rejected;
\* so it is never negative, always equals the number of admitted unfinished
\* invocations, and is 0 whenever none is in flight.
C34_CounterTracksAdmitted ==
    /\ [][\A t \in RateLimitedTools :
            /\ AdmittedStep(t) => activeOperations' = activeOperations + 1
            /\ CompletedStep(t) => activeOperations' = activeOperations - 1
            /\ RejectedStep(t) => activeOperations' = activeOperations]_vars
    /\ [][activeOperations' # activeOperations =>
            \E t \in RateLimitedTools : AdmittedStep(t) \/ CompletedStep(t)]_vars
    /\ [](activeOperations >= 0)
    /\ [](activeOperations = LimitedInFlight)
    /\ [](LimitedInFlight = 0 => activeOperations = 0)

\* C34 witness: the ceiling was reached, a call was rejected, and every
\* admitted invocation has completed since: the counter is back at 0.
C34_Witness ==
    /\ completed["execute_init"] + completed["execute_add"]
          = MAX_CONCURRENT_OPERATIONS
    /\ rejected["execute_add"] > 0
    /\ LimitedInFlight = 0
    /\ activeOperations = 0


(***************************************************************************)
(* Properties of the cache under concurrent callers                        *)
(***************************************************************************)

\* Two callers with caching enabled that asked for the same URL with no
\* clearRegistryCache() between them.
SameFlight(a, b) ==
    /\ awaiting[a].useCache /\ awaiting[b].useCache
    /\ awaiting[a].url = awaiting[b].url
    /\ awaiting[a].epoch = awaiting[b].epoch

\* C35: among the fetchRegistry callers with caching enabled that ask for
\* the same resolved URL between two cache clears, in any interleaving, at
\* most one dispatches a network request, all are handed the same promise,
\* and those that have received its outcome have received the same one.
C35_SingleFlight ==
    \A a, b \in 1..Len(awaiting) :
        SameFlight(a, b) =>
            /\ (awaiting[a].dispatched /\ awaiting[b].dispatched) => a = b
            /\ awaiting[a].promise = awaiting[b].promise
            /\ (/\ awaiting[a].received # "nothing"
                /\ awaiting[b].received # "nothing")
                  => awaiting[a].received = awaiting[b].received

\* C35 witness: two callers with caching enabled asked for the same URL, one
\* request was dispatched and both have received its outcome.
C35_Witness ==
    /\ Len(awaiting) >= 2
    /\ SameFlight(1, 2)
    /\ awaiting[1].dispatched /\ ~awaiting[2].dispatched
    /\ awaiting[1].received # "nothing"
    /\ awaiting[2].received # "nothing"
    /\ Len(promises) = 1

\* C36: the cache retains only successful fetches: a fetchRegistry call
\* with caching enabled for a URL whose earlier fetch failed (the rejected
\* promise was never cleared) sends a new request, and succeeds when the
\* server now answers 200.
C36_FailedFetchIsFetchedAgain ==
    (/\ fetchCall # NoFetch
     /\ fetchCall.useCache
     /\ GetRegistryUrl(fetchCall.path).ok
     /\ GetRegistryUrl(fetchCall.path).url \in DOMAIN fetchCall.cacheBefore
     /\ fetchCall.cacheBefore[GetRegistryUrl(fetchCall.path).url].state
            = "rejected")
        => /\ fetchCall.sent # <<>>
           /\ fetchCall.answer = "ok" => fetchCall.promise = Fulfilled


(***************************************************************************)
(* Properties of local-file references                                     *)
(***************************************************************************)

\* The directory dir itself or something beneath it, by path segments.
LiesIn(p, dir) ==
    LET ps == Walk(Segments(p), <<>>)
        ds == Walk(Segments(dir), <<>>)
    IN  /\ StartsWith(p, <<"/">>)
        /\ Len(ps) >= Len(ds)
        /\ SubSeq(ps, 1, Len(ds)) = ds

LocalFileRead ==
    /\ pPc = "done"
    /\ pResult.fn = "getLocalRegistryItem"
    /\ pResult.outcome = "returned"

\* C37: a path validateWorkspacePath returns is the workspace directory or
\* lies beneath it (for every other input it throws), and a file that
\* getLocalRegistryItem reads lies in the workspace directory, whatever the
\* reference, a leading "~/" or "/" included.
C37_LocalFilesInsideWorkspace ==
    /\ (pPc = "done" /\ pResult.fn = "validateWorkspacePath")
          => \/ pResult.outcome = "threw"
             \/ /\ pResult.outcome = "returned"
                /\ LiesIn(pResult.value, WorkspaceDir)
    /\ LocalFileRead
          => LiesIn(pResult.value,
                    IF pResult.source = "env" THEN EnvWorkspaceDir
                    ELSE WorkspaceDir)

\* C37 witness: a reference to a file in a directory of the workspace has
\* been read.
C37_Witness ==
    /\ LocalFileRead
    /\ Len(inputPath) >= 4
    /\ Contains(inputPath, <<"/">>)


(***************************************************************************)
(* Properties of a failed initialization                                   *)
(***************************************************************************)

InitFailed ==
    /\ proc = "ready"
    /\ request.tool = "execute_init"
    /\ response.kind \in {"isError", "threw"}

\* C38: when execute_init fails in a directory that had no components.json,
\* the directory has none afterwards, so the same call with force = false
\* is not refused because a components.json exists.
C38_FailedInitLeavesNoConfig ==
    (InitFailed /\ projectDirBefore.config = "absent")
        => /\ projectDir.config = "absent"
           /\ ~ConfigBlocks(projectDir.config # "absent", FALSE)

====
